---------------------------- MODULE Spec2Model ----------------------------
(***************************************************************************)
(* Game-library discovery core (src-tauri/src/steam.rs and its callers).  *)
(*                                                                         *)
(* The module holds one state machine per discovery component:             *)
(*   Spec          the binary shortcuts.vdf decoder, parse_shortcuts_vdf,  *)
(*                 one action per loop iteration of the decoder;           *)
(*   SpecAcf       the per-app text manifest parser, parse_acf;            *)
(*   SpecLibrary   the library index parser, parse_library_paths_from_vdf; *)
(*   SpecDiscover  the catalog walk of discover_games_at, one action per   *)
(*                 directory entry;                                        *)
(*   SpecCommand   the command get_steam_games (lib.rs): the shortcuts of  *)
(*                 every user profile, then the catalog walk;              *)
(*   SpecEpic      the second client's discovery (epic.rs), one action per *)
(*                 entry of the manifest directory;                        *)
(*   SpecRepeat    discover_games_at called twice on one file system;      *)
(*   SpecStore     the store of custom games (library.rs): load, then any  *)
(*                 calls of add, remove and update;                        *)
(*   SpecMutex     the commands add_game, remove_game and get_custom_games *)
(*                 (lib.rs) on concurrent threads, one action per step of  *)
(*                 a command.                                              *)
(*                                                                         *)
(* Bytes are numbers 0..255 and a byte buffer is a sequence of them; the   *)
(* code's cursor is 0-based, so data[i] of the code is data[i + 1] here.   *)
(* A decoded String is a sequence of Unicode code points.  Text (manifest  *)
(* and index files, paths) is a sequence of one-character strings.         *)
(***************************************************************************)
EXTENDS Integers, Sequences, FiniteSets, TLC

VARIABLES
    \* parse_shortcuts_vdf
    shape,        \* how the input buffer was put together (input description)
    data,         \* data: &[u8]
    i,            \* the byte cursor
    pc,           \* "scan" | "fields" | "done" | "panic"
    games,        \* Vec<ShortcutGame>
    app_id,       \* locals of the per-entry block (steam.rs:118-120)
    app_name,
    exe,
    entry_at,     \* offset of the map-start byte of the entry being decoded
    emitted_at,   \* for each pushed record, the entry_at it was decoded from
    iters,        \* loop iterations begun so far, outer and per-field
    \* parse_acf
    contents,     \* contents: &str
    steamapps_dir,\* steamapps_dir: &Path
    acf_desc,     \* how contents was put together (input description)
    acf_pc,       \* "call" | "returned"
    acf_result,   \* the Option<SteamGame> returned
    \* parse_library_paths_from_vdf
    vdf,          \* vdf: &str
    steam_root,   \* steam_root: &Path
    vdf_desc,     \* how vdf was put together (input description)
    line_no,      \* number of lines of vdf consumed by the for loop
    paths,        \* Vec<PathBuf>
    lib_pc,       \* "loop" | "done"
    \* discover_games_at
    fs,           \* the file system: root, index file, directory listings
    library_paths,\* the Vec<PathBuf> of find_library_paths
    lib_idx,      \* position of the flat_map iterator: library directory
    ent_idx,      \* position inside that directory's listing
    seen,         \* HashSet<u64> of app ids
    found,        \* the collected Vec<SteamGame>
    walk,         \* every record the walk produced, in walk order
    disc_pc,      \* "start" | "walk" | "done" | "not_found" | "io_error"
    \* get_steam_games and discover_shortcut_games
    userdata,     \* the userdata directory: its profiles' shortcuts.vdf files
    prof_idx,     \* position of the flat_map iterator: shortcuts.vdf path
    shortcuts,    \* the collected Vec<ShortcutGame>
    cmd_pc,       \* "shortcuts" | "steam" | "returned" | "panic"
    cmd_result,   \* the Result<Vec<SteamGame>, String> returned
    \* epic::discover_games and discover_games_from
    efs,          \* the manifest directory: its state and its entries
    epic_idx,     \* position of the read_dir iterator
    epic_games,   \* the collected Vec<EpicGame>
    epic_from,    \* for each pushed record, the entry it was parsed from
    epic_pc,      \* "start" | "entries" | "ok" | "io_error"
    \* a caller of discover_games_at that calls it twice
    call_no,      \* which call is running or has returned: 1 or 2
    first,        \* what the first call returned
    \* Library (library.rs)
    store_file,   \* the file at self.path
    store_games,  \* self.games
    store_pc,     \* "new" | "loaded" | "load_failed"
    store_before, \* self.games when the last call began
    store_last,   \* the last call: operation, argument, error returned
    store_ok,     \* no call has returned an error so far
    \* AppState and the commands on it (lib.rs)
    threads,      \* the threads running a command each
    lock,         \* the Mutex around the Library: its holder, 0 when free
    order,        \* the threads in the order in which they got the lock
    serial        \* the library and results of the commands run in order

shortcutVars == <<shape, data, i, pc, games, app_id, app_name, exe,
                  entry_at, emitted_at, iters>>
acfVars      == <<contents, steamapps_dir, acf_desc, acf_pc, acf_result>>
libraryVars  == <<vdf, steam_root, vdf_desc, line_no, paths, lib_pc>>
discoverVars == <<fs, library_paths, lib_idx, ent_idx, seen, found, walk, disc_pc>>
commandVars  == <<userdata, prof_idx, shortcuts, cmd_pc, cmd_result>>
epicVars     == <<efs, epic_idx, epic_games, epic_from, epic_pc>>
repeatVars   == <<call_no, first>>
storeVars    == <<store_file, store_games, store_pc, store_before,
                  store_last, store_ok>>
mutexVars    == <<threads, lock, order, serial>>
vars         == <<shortcutVars, acfVars, libraryVars, discoverVars,
                  commandVars, epicVars, repeatVars, storeVars, mutexVars>>

----------------------------------------------------------------------------
(* Generic helpers *)

Range(s) == {s[k] : k \in 1..Len(s)}

RECURSIVE Concat(_)
Concat(ss) == IF ss = <<>> THEN <<>> ELSE Head(ss) \o Concat(Tail(ss))

\* All sequences over S of length at most n.
SeqsUpTo(S, n) == UNION {[1..k -> S] : k \in 0..n}

\* The sequence s with x inserted after its first k elements.
InsertAt(s, k, x) == SubSeq(s, 1, k) \o <<x>> \o SubSeq(s, k + 1, Len(s))

\* All orderings of the elements of the finite set S.
Perms(S) == {p \in [1..Cardinality(S) -> S] : Range(p) = S}

----------------------------------------------------------------------------
(* Binary VDF markers, steam.rs:79-82 *)

TYPE_MAP == 0
TYPE_STRING == 1
TYPE_INT32 == 2
END_MAP == 8

\* U+FFFD REPLACEMENT CHARACTER, what String::from_utf8_lossy substitutes.
REPLACEMENT == 65533

\* data[k] of the code (0-based).
Byte(d, k) == d[k + 1]

(***************************************************************************)
(* String::from_utf8_lossy (steam.rs:89): ASCII bytes decode to           *)
(* themselves, a lead byte C2..DF followed by a continuation byte 80..BF  *)
(* decodes to one code point, every other byte >= 0x80 met here (a stray  *)
(* continuation byte, a lead byte without continuation, C0, C1, F5..FF)   *)
(* becomes U+FFFD.  The buffers of this model hold no lead byte E0..F4.   *)
(***************************************************************************)
RECURSIVE from_utf8_lossy(_)
from_utf8_lossy(b) ==
    IF b = <<>> THEN <<>>
    ELSE LET c == Head(b) IN
         IF c < 128 THEN <<c>> \o from_utf8_lossy(Tail(b))
         ELSE IF /\ c >= 194 /\ c <= 223 /\ Len(b) >= 2
                 /\ b[2] >= 128 /\ b[2] <= 191
              THEN <<(c - 192) * 64 + (b[2] - 128)>>
                       \o from_utf8_lossy(SubSeq(b, 3, Len(b)))
              ELSE <<REPLACEMENT>> \o from_utf8_lossy(Tail(b))

\* The while loop of read_cstring (steam.rs:86-88): the first position at or
\* after pos that is past the buffer or holds 0x00.
RECURSIVE cstring_end(_, _)
cstring_end(d, pos) ==
    IF pos < Len(d) /\ Byte(d, pos) # 0 THEN cstring_end(d, pos + 1) ELSE pos

(***************************************************************************)
(* read_cstring, steam.rs:84-92.  &data[start..*pos] panics when start    *)
(* lies past the buffer (start > data.len(); the loop then leaves         *)
(* *pos = start).  Otherwise the result is the decoded string and the     *)
(* cursor one past the terminator (or one past the buffer end).           *)
(***************************************************************************)
read_cstring(d, pos) ==
    LET stop == cstring_end(d, pos) IN
    IF pos > Len(d)
    THEN [panic |-> TRUE, s |-> <<>>, pos |-> pos]
    ELSE [panic |-> FALSE,
          s |-> from_utf8_lossy(SubSeq(d, pos + 1, stop)),
          pos |-> stop + 1]

\* Mutant of read_u32_le: the four bytes taken big-endian.
read_u32_le_big_endian(d, pos) ==
    IF pos + 4 > Len(d)
    THEN [val |-> [hi |-> 0, lo |-> 0], pos |-> pos]
    ELSE [val |-> [hi |-> Byte(d, pos + 1) + 256 * Byte(d, pos),
                   lo |-> Byte(d, pos + 3) + 256 * Byte(d, pos + 2)],
          pos |-> pos + 4]

(***************************************************************************)
(* read_u32_le, steam.rs:94-101.  A u32 does not fit TLC's integers, so   *)
(* the value is kept as its two 16-bit halves: value = hi * 65536 + lo.   *)
(* A payload that does not fit in the buffer reads as 0 and is not        *)
(* consumed.                                                               *)
(***************************************************************************)
read_u32_le(d, pos) ==
    IF pos + 4 > Len(d)
    THEN [val |-> [hi |-> 0, lo |-> 0], pos |-> pos]
    ELSE [val |-> [hi |-> Byte(d, pos + 2) + 256 * Byte(d, pos + 3),
                   lo |-> Byte(d, pos) + 256 * Byte(d, pos + 1)],
          pos |-> pos + 4]

\* char::is_ascii_digit
is_ascii_digit(c) == c >= 48 /\ c <= 57

\* u8/char::to_ascii_lowercase
to_ascii_lowercase(c) == IF c >= 65 /\ c <= 90 THEN c + 32 ELSE c

\* str::eq_ignore_ascii_case (steam.rs:130)
eq_ignore_ascii_case(s, t) ==
    /\ Len(s) = Len(t)
    /\ \A k \in 1..Len(s) : to_ascii_lowercase(s[k]) = to_ascii_lowercase(t[k])

\* char lowercase mapping of str::to_lowercase (steam.rs:136) for the code
\* points a decoded name can hold here (U+0000..U+07FF of which only Basic
\* Latin and Latin-1 letters have an upper case in the model, and U+FFFD).
to_lowercase_char(c) ==
    IF c >= 65 /\ c <= 90 THEN c + 32
    ELSE IF c >= 192 /\ c <= 222 /\ c # 215 THEN c + 32
    ELSE c

to_lowercase(s) == [k \in 1..Len(s) |-> to_lowercase_char(s[k])]

\* The field names the decoder looks for (steam.rs:130, 137, 138).
STR_appid == <<97, 112, 112, 105, 100>>
STR_appname == <<97, 112, 112, 110, 97, 109, 101>>
STR_exe == <<101, 120, 101>>

\* key.chars().next().map(|c| c.is_ascii_digit()).unwrap_or(false), steam.rs:112-116
numeric_key(key) == key # <<>> /\ is_ascii_digit(key[1])

\* Mutant of skip_width: a tag that is not known skips nothing.
skip_width_known_only(field_type) ==
    CASE field_type = 3 -> 1
      [] field_type = 4 -> 4
      [] field_type = 5 -> 8
      [] OTHER -> 0

\* Mutant of skip_width: a uint64 payload taken to be 4 bytes wide.
skip_width_u64_as_4(field_type) ==
    CASE field_type = 3 -> 1
      [] field_type = 4 -> 4
      [] field_type = 5 -> 4
      [] OTHER -> 1

\* Payload width skipped for a tag that is neither int32 nor string
\* (steam.rs:158-175).
skip_width(field_type) ==
    CASE field_type = 3 -> 1
      [] field_type = 4 -> 4
      [] field_type = 5 -> 8
      [] OTHER -> 1


----------------------------------------------------------------------------
(* Input buffers of the shortcut decoder.                                  *)
(* A buffer is either raw bytes, or the encoding of a list of per-app maps *)
(* (key, fields), possibly cut short.  A field is its tag byte, its name,  *)
(* a null byte, and its payload (steam.rs:122-125, spec section 4.4).      *)

\* u32::to_le_bytes of hi * 65536 + lo
le_bytes(v) == <<v.lo % 256, v.lo \div 256, v.hi % 256, v.hi \div 256>>

\* UTF-8 encoding of a string of code points below U+0800.
RECURSIVE utf8(_)
utf8(s) ==
    IF s = <<>> THEN <<>>
    ELSE LET c == Head(s) IN
         IF c < 128 THEN <<c>> \o utf8(Tail(s))
         ELSE <<192 + (c \div 64), 128 + (c % 64)>> \o utf8(Tail(s))

IntField(name, v) == [tag |-> TYPE_INT32, name |-> name, payload |-> le_bytes(v)]
StrField(name, s) == [tag |-> TYPE_STRING, name |-> name, payload |-> utf8(s) \o <<0>>]
BlobField(tag, name, bytes) == [tag |-> tag, name |-> name, payload |-> bytes]

enc_field(f) == <<f.tag>> \o f.name \o <<0>> \o f.payload

enc_entry(e) ==
    <<TYPE_MAP>> \o e.key \o <<0>>
        \o Concat([k \in 1..Len(e.fields) |-> enc_field(e.fields[k])])
        \o <<END_MAP>>

enc_entries(es) == Concat([k \in 1..Len(es) |-> enc_entry(es[k])])

\* Offset of the map-start byte of the k-th entry in enc_entries(es).
entry_offset(es, k) == Len(enc_entries(SubSeq(es, 1, k - 1)))

\* Bounds of the input space.
MaxRawLen == 4
MaxFields == 2

\* Raw buffers: the tags the decoder tells apart, a digit, a letter.
RawBytes == {0, 1, 2, 8, 49, 97}
RawBuffers == SeqsUpTo(RawBytes, MaxRawLen)

\* Spellings of the three field names.
AppidSpellings == {<<97, 112, 112, 105, 100>>, <<65, 80, 80, 73, 68>>,
                   <<65, 112, 112, 73, 100>>}
AppNameSpellings == {<<65, 112, 112, 78, 97, 109, 101>>,
                     <<97, 112, 112, 110, 97, 109, 101>>,
                     <<65, 80, 80, 78, 65, 77, 69>>}
ExeSpellings == {<<101, 120, 101>>, <<69, 120, 101>>, <<69, 88, 69>>}

\* 440; 0xFFFFFFFF; 0x08000008 (payload 08 00 00 08)
AppIds == {[hi |-> 0, lo |-> 440], [hi |-> 65535, lo |-> 65535],
           [hi |-> 2048, lo |-> 8]}
\* "HL"; U+00E9 followed by U+0008 (encoded C3 A9 08)
AppNames == {<<72, 76>>, <<233, 8>>}
\* ""; "/h"
Exes == {<<>>, <<47, 104>>}
\* "0"; "1a"
Keys == {<<48>>, <<49, 97>>}

NoShape == [family |-> "none", raw |-> <<>>, entries |-> <<>>, cut |-> 0,
            want |-> <<>>]

\* A raw buffer.
RawShape(b) == [NoShape EXCEPT !.family = "raw", !.raw = b, !.cut = Len(b)]

\* One map holding appid = v, AppName = n and exe = x under key k, the
\* three fields in the order and spelling of flds.
SingleShape(k, v, n, x, flds) ==
    LET e == [key |-> k, fields |-> flds]
    IN  [NoShape EXCEPT !.family = "single", !.entries = <<e>>,
                        !.cut = Len(enc_entry(e)),
                        !.want = <<[app_id |-> v, app_name |-> n, exe |-> x]>>]

\* Fields of a well-formed entry: the three the decoder collects, an empty
\* AppName, an int32 that is called AppName, and one field of every other
\* payload width, each payload starting with the map-end byte.
Pool == {IntField(<<97, 112, 112, 105, 100>>, [hi |-> 0, lo |-> 440]),
         StrField(<<65, 112, 112, 78, 97, 109, 101>>, <<72, 76>>),
         StrField(<<65, 112, 112, 78, 97, 109, 101>>, <<>>),
         StrField(<<101, 120, 101>>, <<47, 104>>),
         IntField(<<65, 112, 112, 78, 97, 109, 101>>, [hi |-> 0, lo |-> 440]),
         BlobField(3, <<104>>, <<8>>),
         BlobField(4, <<99>>, <<8, 0, 1, 2>>),
         BlobField(5, <<116>>, <<8, 8, 0, 0, 0, 0, 1, 8>>),
         BlobField(7, <<117>>, <<8>>)}

PoolEntries == {[key |-> <<48>>, fields |-> flds] : flds \in SeqsUpTo(Pool, MaxFields)}

\* A second entry, with and without a display name.
SecondEntries ==
    {[key |-> <<50>>,
      fields |-> <<IntField(<<97, 112, 112, 105, 100>>, [hi |-> 0, lo |-> 7]),
                   StrField(<<65, 112, 112, 78, 97, 109, 101>>, <<81>>),
                   StrField(<<101, 120, 101>>, <<47, 113>>)>>],
     [key |-> <<51>>,
      fields |-> <<StrField(<<101, 120, 101>>, <<47, 113>>)>>]}

\* Well-formed entries, the buffer cut after its first c bytes.
MixedShape(es, c) == [NoShape EXCEPT !.family = "mixed", !.entries = es, !.cut = c]

\* Tags the decoder does not know, and one-byte payloads for them.
UnknownTags == {6, 7, 9, 255}
UnknownPayloads == {0, 1, 8, 65}

\* Two complete entries back to back, the first with a field of an unknown
\* tag tg (name nm, one payload byte b) after p of its three fields.
UnknownShape(p, tg, nm, b) ==
    LET core == <<IntField(<<97, 112, 112, 105, 100>>, [hi |-> 0, lo |-> 440]),
                  StrField(<<65, 112, 112, 78, 97, 109, 101>>, <<72, 76>>),
                  StrField(<<101, 120, 101>>, <<47, 104>>)>>
        e == [key |-> <<48>>,
              fields |-> InsertAt(core, p, BlobField(tg, nm, <<b>>))]
        f == [key |-> <<49>>,
              fields |-> <<IntField(<<97, 112, 112, 105, 100>>, [hi |-> 0, lo |-> 7]),
                           StrField(<<65, 112, 112, 78, 97, 109, 101>>, <<81>>),
                           StrField(<<101, 120, 101>>, <<47, 113>>)>>]
    IN  [NoShape EXCEPT !.family = "unknown", !.entries = <<e, f>>,
                        !.cut = Len(enc_entries(<<e, f>>)),
                        !.want = <<[app_id |-> [hi |-> 0, lo |-> 440],
                                    app_name |-> <<72, 76>>, exe |-> <<47, 104>>],
                                   [app_id |-> [hi |-> 0, lo |-> 7],
                                    app_name |-> <<81>>, exe |-> <<47, 113>>]>>]

\* A nested map field: tag 0x00, its name, its own fields and its map end.
MapField(name, flds) ==
    BlobField(TYPE_MAP, name,
              Concat([k \in 1..Len(flds) |-> enc_field(flds[k])]) \o <<END_MAP>>)

\* The fields of a nested "tags" map: none, one string, two strings, one
\* int32.
NestedContents ==
    {<<>>,
     <<StrField(<<48>>, <<120>>)>>,
     <<StrField(<<48>>, <<120>>), StrField(<<49>>, <<121, 122>>)>>,
     <<IntField(<<110>>, [hi |-> 0, lo |-> 5])>>}

\* One complete entry whose map "tags" (fields inner) comes after p of its
\* three fields.
NestedShape(p, inner) ==
    LET core == <<IntField(<<97, 112, 112, 105, 100>>, [hi |-> 0, lo |-> 440]),
                  StrField(<<65, 112, 112, 78, 97, 109, 101>>, <<72, 76>>),
                  StrField(<<101, 120, 101>>, <<47, 104>>)>>
        e == [key |-> <<48>>,
              fields |-> InsertAt(core, p, MapField(<<116, 97, 103, 115>>, inner))]
    IN  [NoShape EXCEPT !.family = "nested", !.entries = <<e>>,
                        !.cut = Len(enc_entry(e)),
                        !.want = <<[app_id |-> [hi |-> 0, lo |-> 440],
                                    app_name |-> <<72, 76>>, exe |-> <<47, 104>>]>>]

\* The inputs: raw buffers; one map of the three fields in every order and
\* spelling; one well-formed entry cut at every length; two complete
\* well-formed entries; two entries, the first with an unknown tag; one
\* entry with a nested map.
InputShape(sh) ==
    \/ \E b \in RawBuffers : sh = RawShape(b)
    \/ \E k \in Keys, v \in AppIds, n \in AppNames, x \in Exes,
          a \in AppidSpellings, b \in AppNameSpellings, c \in ExeSpellings :
          \E flds \in Perms({IntField(a, v), StrField(b, n), StrField(c, x)}) :
              sh = SingleShape(k, v, n, x, flds)
    \/ \E e \in PoolEntries :
          \E c \in 0..Len(enc_entry(e)) : sh = MixedShape(<<e>>, c)
    \/ \E e \in PoolEntries, f \in SecondEntries :
          sh = MixedShape(<<e, f>>, Len(enc_entries(<<e, f>>)))
    \/ \E p \in 0..3, tg \in UnknownTags, nm \in {<<>>, <<117>>},
          b \in UnknownPayloads : sh = UnknownShape(p, tg, nm, b)
    \/ \E p \in 0..3, inner \in NestedContents : sh = NestedShape(p, inner)

\* The bytes handed to the decoder.
Buffer(sh) ==
    IF sh.family = "raw" THEN sh.raw
    ELSE LET all == enc_entries(sh.entries)
         IN  SubSeq(all, 1, IF sh.cut < Len(all) THEN sh.cut ELSE Len(all))

\* The buffer holds every byte of its entries.
Complete(sh) == sh.family # "raw" /\ sh.cut >= Len(enc_entries(sh.entries))

----------------------------------------------------------------------------
(* parse_shortcuts_vdf, steam.rs:74-191 *)

ZeroId == [hi |-> 0, lo |-> 0]

ShortcutInit ==
    /\ InputShape(shape)
    /\ data = Buffer(shape)
    /\ i = 0
    /\ pc = "scan"
    /\ games = <<>>
    /\ app_id = ZeroId
    /\ app_name = <<>>
    /\ exe = <<>>
    /\ entry_at = 0
    /\ emitted_at = <<>>
    /\ iters = 0

\* Mutant of ScanStep: a byte that is no map start is not stepped over.
ScanStep_no_advance ==
    /\ pc = "scan"
    /\ i < Len(data)
    /\ IF Byte(data, i) # TYPE_MAP
       THEN UNCHANGED <<i, pc, app_id, app_name, exe, entry_at>>
       ELSE LET key == read_cstring(data, i + 1) IN
            /\ i' = key.pos
            /\ IF numeric_key(key.s)
               THEN /\ pc' = "fields"
                    /\ app_id' = ZeroId
                    /\ app_name' = <<>>
                    /\ exe' = <<>>
                    /\ entry_at' = i
               ELSE UNCHANGED <<pc, app_id, app_name, exe, entry_at>>
    /\ iters' = iters + 1
    /\ UNCHANGED <<shape, data, games, emitted_at>>

\* One iteration of the outer loop up to the per-entry field loop
\* (steam.rs:103-120): skip a byte that is no map start, or read the map's
\* key and, for a numeric key, start collecting an entry.
ScanStep ==
    /\ pc = "scan"
    /\ i < Len(data)
    /\ IF Byte(data, i) # TYPE_MAP
       THEN /\ i' = i + 1
            /\ UNCHANGED <<pc, app_id, app_name, exe, entry_at>>
       ELSE LET key == read_cstring(data, i + 1) IN
            /\ i' = key.pos
            /\ IF numeric_key(key.s)
               THEN /\ pc' = "fields"
                    /\ app_id' = ZeroId
                    /\ app_name' = <<>>
                    /\ exe' = <<>>
                    /\ entry_at' = i
               ELSE UNCHANGED <<pc, app_id, app_name, exe, entry_at>>
    /\ iters' = iters + 1
    /\ UNCHANGED <<shape, data, games, emitted_at>>

\* The outer loop ends and the function returns games (steam.rs:103, 190).
ScanEnd ==
    /\ pc = "scan"
    /\ i >= Len(data)
    /\ pc' = "done"
    /\ UNCHANGED <<shape, data, i, games, app_id, app_name, exe, entry_at,
                   emitted_at, iters>>

\* The effect of one field (steam.rs:123-177) on the cursor and the three
\* collected values; panic when read_cstring slices past the buffer.
field_step(d, pos, id, name, ex) ==
    LET field_type == Byte(d, pos)
        field_name == read_cstring(d, pos + 1)
        same == [panic |-> FALSE, pos |-> field_name.pos, app_id |-> id,
                 app_name |-> name, exe |-> ex]
    IN  CASE field_type = TYPE_INT32 ->
               LET val == read_u32_le(d, field_name.pos) IN
               [same EXCEPT !.pos = val.pos,
                            !.app_id = IF eq_ignore_ascii_case(field_name.s, STR_appid)
                                       THEN val.val ELSE id]
          [] field_type = TYPE_STRING ->
               LET val == read_cstring(d, field_name.pos) IN
               IF val.panic THEN [same EXCEPT !.panic = TRUE]
               ELSE [same EXCEPT
                       !.pos = val.pos,
                       !.app_name = IF to_lowercase(field_name.s) = STR_appname
                                    THEN val.s ELSE name,
                       !.exe = IF to_lowercase(field_name.s) = STR_exe
                               THEN val.s ELSE ex]
          [] field_type = END_MAP -> same
          [] OTHER -> [same EXCEPT !.pos = field_name.pos + skip_width(field_type)]

\* One iteration of the per-entry field loop (steam.rs:122-178).
FieldStep ==
    /\ pc = "fields"
    /\ i < Len(data) /\ Byte(data, i) # END_MAP
    /\ LET r == field_step(data, i, app_id, app_name, exe) IN
       IF r.panic
       THEN /\ pc' = "panic"
            /\ UNCHANGED <<i, app_id, app_name, exe>>
       ELSE /\ i' = r.pos
            /\ app_id' = r.app_id
            /\ app_name' = r.app_name
            /\ exe' = r.exe
            /\ UNCHANGED pc
    /\ iters' = iters + 1
    /\ UNCHANGED <<shape, data, games, entry_at, emitted_at>>

\* Mutant of EmitEntry: the entry is pushed whether or not it has a name.
EmitEntry_unconditional ==
    /\ pc = "fields"
    /\ ~(i < Len(data) /\ Byte(data, i) # END_MAP)
    /\ games' = Append(games, [app_id |-> app_id, app_name |-> app_name,
                               exe |-> exe])
    /\ emitted_at' = Append(emitted_at, entry_at)
    /\ pc' = "scan"
    /\ UNCHANGED <<shape, data, i, app_id, app_name, exe, entry_at, iters>>

\* The field loop ends at a map-end byte or at the end of the buffer; the
\* entry is pushed when it has a display name (steam.rs:122, 180-186).
EmitEntry ==
    /\ pc = "fields"
    /\ ~(i < Len(data) /\ Byte(data, i) # END_MAP)
    /\ IF app_name # <<>>
       THEN /\ games' = Append(games, [app_id |-> app_id, app_name |-> app_name,
                                       exe |-> exe])
            /\ emitted_at' = Append(emitted_at, entry_at)
       ELSE UNCHANGED <<games, emitted_at>>
    /\ pc' = "scan"
    /\ UNCHANGED <<shape, data, i, app_id, app_name, exe, entry_at, iters>>

----------------------------------------------------------------------------
(* Text: &str and Path values are sequences of one-character strings.      *)

\* Option<T>
None == [some |-> FALSE, value |-> <<>>]
Some(v) == [some |-> TRUE, value |-> v]

\* char::is_whitespace for the characters of the model's texts.
is_whitespace(c) == c \in {" ", "\t", "\r", "\n"}

\* Position of the first occurrence of character c in s at or after
\* position from (1-based), or 0.
RECURSIVE find_char(_, _, _)
find_char(s, c, from) ==
    IF from > Len(s) THEN 0
    ELSE IF s[from] = c THEN from
    ELSE find_char(s, c, from + 1)

\* str::lines (steam.rs:248, 343): split at "\n", a "\r" before the "\n"
\* removed; no empty last line after a final "\n".
RECURSIVE lines(_)
lines(t) ==
    IF t = <<>> THEN <<>>
    ELSE LET k == find_char(t, "\n", 1) IN
         IF k = 0 THEN <<t>>
         ELSE LET l == SubSeq(t, 1, k - 1)
                  stripped == IF l # <<>> /\ l[Len(l)] = "\r"
                              THEN SubSeq(l, 1, Len(l) - 1) ELSE l
              IN  <<stripped>> \o lines(SubSeq(t, k + 1, Len(t)))

\* str::trim_start and str::trim_end, together str::trim (steam.rs:249, 344)
RECURSIVE trim_start(_)
trim_start(s) ==
    IF s # <<>> /\ is_whitespace(Head(s)) THEN trim_start(Tail(s)) ELSE s

RECURSIVE trim_end(_)
trim_end(s) ==
    IF s # <<>> /\ is_whitespace(s[Len(s)])
    THEN trim_end(SubSeq(s, 1, Len(s) - 1)) ELSE s

\* Mutant of trim: only the end of the line is trimmed.
trim_end_only(s) == trim_end(s)

trim(s) == trim_end(trim_start(s))

\* str::starts_with / str::ends_with
starts_with(s, prefix) ==
    Len(s) >= Len(prefix) /\ SubSeq(s, 1, Len(prefix)) = prefix

ends_with(s, suffix) ==
    Len(s) >= Len(suffix) /\ SubSeq(s, Len(s) - Len(suffix) + 1, Len(s)) = suffix

(***************************************************************************)
(* extract_quoted_value, steam.rs:326-339, from position from of the line: *)
(* find the next opening quote (None when there is none), collect up to    *)
(* the closing quote or the end of the line, return the token when it is   *)
(* the index-th, else go on after the closing quote.                       *)
(***************************************************************************)
RECURSIVE extract_from(_, _, _)
extract_from(line, from, index) ==
    LET open == find_char(line, "\"", from) IN
    IF open = 0 THEN None
    ELSE LET q == find_char(line, "\"", open + 1)
             close == IF q = 0 THEN Len(line) + 1 ELSE q
         IN  IF index = 0 THEN Some(SubSeq(line, open + 1, close - 1))
             ELSE extract_from(line, close + 1, index - 1)

extract_quoted_value(line, index) == extract_from(line, 1, index)

\* find_acf_value over the lines ls, steam.rs:343-349: the first line whose
\* trimmed text starts with the quoted key decides.
RECURSIVE find_in_lines(_, _)
find_in_lines(ls, key) ==
    IF ls = <<>> THEN None
    ELSE LET trimmed == trim(Head(ls)) IN
         IF starts_with(trimmed, <<"\"">> \o key \o <<"\"">>)
         THEN extract_quoted_value(trimmed, 1)
         ELSE find_in_lines(Tail(ls), key)

\* find_acf_value, steam.rs:342-350
find_acf_value(text, key) == find_in_lines(lines(text), key)

\* Decimal digits and their values.
Digits == <<"0", "1", "2", "3", "4", "5", "6", "7", "8", "9">>
is_digit(c) == \E k \in 1..10 : Digits[k] = c
digit_value(c) == (CHOOSE k \in 1..10 : Digits[k] = c) - 1

\* A numeral without its leading zeros ("0" for zero).
RECURSIVE strip_zeros(_)
strip_zeros(ds) ==
    IF Len(ds) > 1 /\ Head(ds) = "0" THEN strip_zeros(Tail(ds)) ELSE ds

\* a <= b for numerals of the same length.
RECURSIVE numeral_le(_, _)
numeral_le(a, b) ==
    IF a = <<>> THEN TRUE
    ELSE IF digit_value(Head(a)) < digit_value(Head(b)) THEN TRUE
    ELSE IF digit_value(Head(a)) > digit_value(Head(b)) THEN FALSE
    ELSE numeral_le(Tail(a), Tail(b))

\* u64::MAX = 18446744073709551615
U64_MAX == <<"1", "8", "4", "4", "6", "7", "4", "4", "0", "7", "3", "7", "0", "9", "5", "5", "1", "6", "1", "5">>

\* The numeral (without leading zeros) is at most u64::MAX.
fits_u64(n) ==
    \/ Len(n) < Len(U64_MAX)
    \/ Len(n) = Len(U64_MAX) /\ numeral_le(n, U64_MAX)

\* Mutant of parse_u64: characters that are no digits are passed over.
parse_u64_lenient(s) ==
    LET ds == SelectSeq(s, is_digit) IN
    IF ds = <<>> THEN Some(<<"0">>)
    ELSE IF fits_u64(strip_zeros(ds)) THEN Some(strip_zeros(ds)) ELSE None

(***************************************************************************)
(* str::parse::<u64> (steam.rs:288).  A u64 does not fit TLC's integers:   *)
(* the value is kept as its decimal numeral without leading zeros.  The    *)
(* text may start with one "+"; it must then hold digits only, at least    *)
(* one, and the number must not exceed u64::MAX.                           *)
(***************************************************************************)
parse_u64(s) ==
    LET ds == IF s # <<>> /\ Head(s) = "+" THEN Tail(s) ELSE s IN
    IF ds = <<>> THEN None
    ELSE IF \E k \in 1..Len(ds) : ~is_digit(ds[k]) THEN None
    ELSE IF fits_u64(strip_zeros(ds)) THEN Some(strip_zeros(ds))
    ELSE None

(***************************************************************************)
(* Path::join (PathBuf::push) on Unix, steam.rs:245, 253, 291: an absolute *)
(* argument replaces the path; otherwise a separator is added unless the   *)
(* path is empty or already ends with one, then the argument.              *)
(***************************************************************************)
path_join(p, q) ==
    IF q # <<>> /\ Head(q) = "/" THEN q
    ELSE IF p # <<>> /\ p[Len(p)] # "/" THEN p \o <<"/">> \o q
    ELSE p \o q

\* The pieces of a path between separators, empty ones included.
RECURSIVE split_path(_)
split_path(p) ==
    LET k == find_char(p, "/", 1) IN
    IF k = 0 THEN <<p>>
    ELSE <<SubSeq(p, 1, k - 1)>> \o split_path(SubSeq(p, k + 1, Len(p)))

(***************************************************************************)
(* Path::components on Unix: whether the path has a root, and its names;   *)
(* repeated and trailing separators are dropped, and so is every "."       *)
(* except one that opens a relative path.                                  *)
(***************************************************************************)
components(p) ==
    LET rooted == p # <<>> /\ Head(p) = "/"
        parts == SelectSeq(split_path(p), LAMBDA c : c # <<>>)
        first_dot == ~rooted /\ parts # <<>> /\ Head(parts) = <<".">>
        rest == SelectSeq(parts, LAMBDA c : c # <<".">>)
    IN  [root |-> rooted,
         names |-> IF first_dot THEN <<<<".">>>> \o rest ELSE rest]

\* PartialEq of Path and PathBuf: equality of the components
\* (Vec::contains at steam.rs:254).
path_eq(p, q) == components(p) = components(q)

----------------------------------------------------------------------------
(* parse_acf, steam.rs:287-299, and its inputs *)

KEY_appid == <<"a", "p", "p", "i", "d">>
KEY_name == <<"n", "a", "m", "e">>
KEY_installdir == <<"i", "n", "s", "t", "a", "l", "l", "d", "i", "r">>
KEY_path == <<"p", "a", "t", "h">>
STEAMAPPS == <<"s", "t", "e", "a", "m", "a", "p", "p", "s">>
COMMON == <<"c", "o", "m", "m", "o", "n">>

\* Some(SteamGame) or None.  app_id is the numeral of the u64.
parse_acf(text, dir) ==
    LET id_text == find_acf_value(text, KEY_appid)
        id == parse_u64(id_text.value)
        name == find_acf_value(text, KEY_name)
        install_dir_name == find_acf_value(text, KEY_installdir)
    IN  IF ~id_text.some THEN None
        ELSE IF ~id.some THEN None
        ELSE IF ~name.some THEN None
        ELSE IF ~install_dir_name.some THEN None
        ELSE Some([app_id |-> id.value,
                   name |-> name.value,
                   install_dir |-> path_join(path_join(dir, COMMON),
                                             install_dir_name.value),
                   is_shortcut |-> FALSE])

(***************************************************************************)
(* A manifest is described by what it holds for each of the three keys:    *)
(* no line ("none"), a line with the key only ("bare"), or a line with the *)
(* key and a quoted value ("full"); by the order of the three lines; and   *)
(* by its layout: "flat" (one key per line), "nested" (the lines indented  *)
(* with tabs inside an "AppState" block, among other keys and a nested     *)
(* block), "crlf" (indented with spaces, CR LF line ends, none after the   *)
(* last line).                                                             *)
(***************************************************************************)
Absent == [line |-> "none", value |-> <<>>]
Bare == [line |-> "bare", value |-> <<>>]
Full(v) == [line |-> "full", value |-> v]

key_line(key, f, indent, sep) ==
    IF f.line = "none" THEN <<>>
    ELSE <<indent \o <<"\"">> \o key \o <<"\"">>
             \o (IF f.line = "full"
                 THEN sep \o <<"\"">> \o f.value \o <<"\"">> ELSE <<>>)>>

\* The three key lines of a description, in its order.
key_lines(desc, indent, sep) ==
    LET a == key_line(KEY_appid, desc.appid, indent, sep)
        n == key_line(KEY_name, desc.name, indent, sep)
        d == key_line(KEY_installdir, desc.installdir, indent, sep)
    IN  IF desc.order = "fwd" THEN a \o n \o d ELSE d \o n \o a

\* The lines ls, each followed by the line end eol.
with_eol(ls, eol) == Concat([k \in 1..Len(ls) |-> ls[k] \o eol])

\* The text of a manifest.
render_acf(desc) ==
    CASE desc.layout = "flat" ->
           with_eol(key_lines(desc, <<>>, <<" ">>), <<"\n">>)
      [] desc.layout = "nested" ->
           with_eol(<<<<"\"", "A", "p", "p", "S", "t", "a", "t", "e", "\"">>, <<"{">>, <<"\t", "\"", "U", "n", "i", "v", "e", "r", "s", "e", "\"", "\t", "\t", "\"", "1", "\"">>>>
                       \o key_lines(desc, <<"\t">>, <<"\t", "\t">>)
                       \o <<<<"\t", "\"", "U", "s", "e", "r", "C", "o", "n", "f", "i", "g", "\"">>, <<"\t", "{">>,
                            <<"\t", "\t", "\"", "l", "a", "n", "g", "u", "a", "g", "e", "\"", "\t", "\t", "\"", "e", "n", "g", "l", "i", "s", "h", "\"">>, <<"\t", "}">>, <<"}">>>>,
                    <<"\n">>)
      [] OTHER ->
           LET t == with_eol(key_lines(desc, <<" ", " ">>, <<" ", " ">>), <<"\r", "\n">>)
           IN  IF t = <<>> THEN t ELSE SubSeq(t, 1, Len(t) - 2)

\* Values of the three keys.
AppidValues == {<<"4", "4", "0">>, <<"0", "0", "7">>, <<"0">>, <<"1", "8", "4", "4", "6", "7", "4", "4", "0", "7", "3", "7", "0", "9", "5", "5", "1", "6", "1", "5">>,
                <<"1", "8", "4", "4", "6", "7", "4", "4", "0", "7", "3", "7", "0", "9", "5", "5", "1", "6", "1", "6">>, <<"9", "9", "9", "9", "9", "9", "9", "9", "9", "9", "9", "9", "9", "9", "9", "9", "9", "9", "9", "9">>,
                <<>>, <<"+", "5">>, <<"-", "1">>, <<"4", "x">>, <<" ", "7">>, <<"+">>}
NameValues == {<<"D", "o", "t", "a", " ", "2">>, <<>>}
InstalldirValues == {<<"d", "o", "t", "a", " ", "2", " ", "b", "e", "t", "a">>, <<>>, <<"/", "o", "p", "t", "/", "g">>, <<"a", "/", "b">>}
LibraryDirs == {<<"/", "f", "a", "k", "e", "/", "s", "t", "e", "a", "m", "a", "p", "p", "s">>, <<"/", "l", "i", "b", "/", "s", "t", "e", "a", "m", "a", "p", "p", "s", "/">>}

FieldStates(values) == {Absent, Bare} \cup {Full(v) : v \in values}

AcfInit ==
    /\ acf_desc \in [appid : FieldStates(AppidValues),
                     name : FieldStates(NameValues),
                     installdir : FieldStates(InstalldirValues),
                     order : {"fwd", "rev"},
                     layout : {"flat", "nested", "crlf"}]
    /\ contents = render_acf(acf_desc)
    /\ steamapps_dir \in LibraryDirs
    /\ acf_pc = "call"
    /\ acf_result = None

\* The call parse_acf(contents, steamapps_dir).
ParseAcf ==
    /\ acf_pc = "call"
    /\ acf_pc' = "returned"
    /\ acf_result' = parse_acf(contents, steamapps_dir)
    /\ UNCHANGED <<contents, steamapps_dir, acf_desc>>

----------------------------------------------------------------------------
(* parse_library_paths_from_vdf, steam.rs:241-262, and its inputs *)

\* Mutant of contains: nothing is ever found in the list.
contains_never(v, x) == FALSE

\* Vec<PathBuf>::contains, steam.rs:254
contains(v, x) == \E k \in 1..Len(v) : path_eq(v[k], x)

(***************************************************************************)
(* An index file is described by the lines inside its "libraryfolders"    *)
(* block: a "path" line with its value, or another line given by its text. *)
(* The lines are written indented with tabs, one per line.                 *)
(***************************************************************************)
PathLine(v) == [kind |-> "path", value |-> v]
OtherLine(text) == [kind |-> "other", value |-> text]

render_vdf_line(item) ==
    IF item.kind = "path"
    THEN <<"\t", "\t", "\"", "p", "a", "t", "h", "\"", "\t", "\t", "\"">> \o item.value \o <<"\"">>
    ELSE item.value

render_vdf(desc) ==
    with_eol(<<<<"\"", "l", "i", "b", "r", "a", "r", "y", "f", "o", "l", "d", "e", "r", "s", "\"">>, <<"{">>>>
                \o [k \in 1..Len(desc) |-> render_vdf_line(desc[k])]
                \o <<<<"}">>>>,
             <<"\n">>)

\* Bound of the input space: lines inside the block.
MaxVdfLines == 3

SteamRoot == <<"/", "r">>
PathValues == {<<"/", "a">>, <<"/", "a", "/">>, <<"/", "b">>, <<"/", "r">>, <<>>}
OtherLines == {<<"\t", "\"", "0", "\"">>, <<"\t", "{">>, <<>>, <<"\t", "\t", "\"", "l", "a", "b", "e", "l", "\"", "\t", "\t", "\"", "/", "c", "\"">>,
               <<"\t", "\"", "1", "\"", " ", "{", " ", "\"", "p", "a", "t", "h", "\"", " ", "\"", "/", "d", "\"", " ", "}">>, <<"\t", "\t", "\"", "p", "a", "t", "h", "\"">>}
VdfItems == {PathLine(v) : v \in PathValues} \cup {OtherLine(l) : l \in OtherLines}

LibraryInit ==
    /\ vdf_desc \in SeqsUpTo(VdfItems, MaxVdfLines)
    /\ vdf = render_vdf(vdf_desc)
    /\ steam_root = SteamRoot
    /\ line_no = 0
    /\ paths = <<path_join(steam_root, STEAMAPPS)>>
    /\ lib_pc = "loop"

\* The list after the loop body has seen one more line, steam.rs:249-258.
library_line(ps, line) ==
    LET trimmed == trim(line)
        value == extract_quoted_value(trimmed, 1)
        lib_path == path_join(value.value, STEAMAPPS)
    IN  IF starts_with(trimmed, <<"\"">> \o KEY_path \o <<"\"">>)
           /\ value.some /\ ~contains(ps, lib_path)
        THEN Append(ps, lib_path)
        ELSE ps

\* One iteration of the loop over vdf.lines(), steam.rs:248-259.
LineStep ==
    /\ lib_pc = "loop"
    /\ line_no < Len(lines(vdf))
    /\ paths' = library_line(paths, lines(vdf)[line_no + 1])
    /\ line_no' = line_no + 1
    /\ UNCHANGED <<vdf, steam_root, vdf_desc, lib_pc>>

\* The loop ends and Ok(paths) is returned, steam.rs:261.
LinesEnd ==
    /\ lib_pc = "loop"
    /\ line_no >= Len(lines(vdf))
    /\ lib_pc' = "done"
    /\ UNCHANGED <<vdf, steam_root, vdf_desc, line_no, paths>>

----------------------------------------------------------------------------
(* discover_games_at, steam.rs:308-321, and the file system it reads *)

\* parse_library_paths_from_vdf as a function of the text: the loop body
\* applied to the lines in order, starting from root/steamapps.
RECURSIVE library_lines(_, _)
library_lines(ps, ls) ==
    IF ls = <<>> THEN ps
    ELSE library_lines(library_line(ps, Head(ls)), Tail(ls))

parse_library_paths_from_vdf(text, root) ==
    library_lines(<<path_join(root, STEAMAPPS)>>, lines(text))

\* The file name filter of read_games_from_library, steam.rs:270-275.
is_manifest_name(n) ==
    starts_with(n, <<"a", "p", "p", "m", "a", "n", "i", "f", "e", "s", "t", "_">>) /\ ends_with(n, <<".", "a", "c", "f">>)

\* A directory entry: its file name and, when the file can be read as
\* text, its contents (None: read_to_string fails).
Entry(fname, file) == [fname |-> fname, file |-> file]

\* parse_acf_file, steam.rs:281-284, for an entry of directory dir.
parse_acf_file(e, dir) ==
    IF ~e.file.some THEN None ELSE parse_acf(e.file.value, dir)

\* Mutant of dedup_key: records are told apart by their install directory.
dedup_key_install_dir(g) == g.install_dir

\* The key of the seen set, steam.rs:317.
dedup_key(g) == g.app_id

\* A flat manifest text with the given appid, name and installdir values.
Manifest(id, name, installdir) ==
    render_acf([appid |-> Full(id), name |-> Full(name),
                installdir |-> Full(installdir), order |-> "fwd",
                layout |-> "flat"])

(***************************************************************************)
(* The file system: whether the root exists, the text of                   *)
(* steamapps/libraryfolders.vdf (None: it cannot be read), and the listing *)
(* of the two library directories /r/steamapps ("r") and /a/steamapps      *)
(* ("a"), in the order the directory walk yields the entries.  Any other   *)
(* directory does not exist.                                               *)
(***************************************************************************)
RootFiles ==
    {Entry(<<"a", "p", "p", "m", "a", "n", "i", "f", "e", "s", "t", "_", "1", ".", "a", "c", "f">>, Some(Manifest(<<"1">>, <<"A">>, <<"g", "a">>))),
     Entry(<<"a", "p", "p", "m", "a", "n", "i", "f", "e", "s", "t", "_", "1", "0", ".", "a", "c", "f">>, Some(Manifest(<<"0", "1">>, <<"B">>, <<"g", "b">>))),
     Entry(<<"a", "p", "p", "m", "a", "n", "i", "f", "e", "s", "t", "_", "2", ".", "a", "c", "f">>, Some(Manifest(<<"2">>, <<>>, <<"g", "c">>))),
     Entry(<<"a", "p", "p", "m", "a", "n", "i", "f", "e", "s", "t", "_", "3", ".", "a", "c", "f">>, Some(Manifest(<<"x">>, <<"D">>, <<"g", "d">>))),
     Entry(<<"a", "p", "p", "m", "a", "n", "i", "f", "e", "s", "t", "_", "4", ".", "a", "c", "f">>, None),
     Entry(<<"l", "i", "b", "r", "a", "r", "y", "f", "o", "l", "d", "e", "r", "s", ".", "v", "d", "f">>, Some(Manifest(<<"5">>, <<"E">>, <<"g", "e">>)))}

ExtraFiles ==
    {Entry(<<"a", "p", "p", "m", "a", "n", "i", "f", "e", "s", "t", "_", "1", ".", "a", "c", "f">>, Some(Manifest(<<"1">>, <<"Z">>, <<"g", "z">>))),
     Entry(<<"a", "p", "p", "m", "a", "n", "i", "f", "e", "s", "t", "_", "7", ".", "a", "c", "f">>, Some(Manifest(<<"7">>, <<"G">>, <<"g", "g">>)))}

\* Bound of the input space: entries of a directory.
MaxListing == 2

\* Listings: the files of a directory in any order, no file twice.
Listings(files) ==
    {l \in SeqsUpTo(files, MaxListing) :
        \A j, k \in 1..Len(l) : j # k => l[j].fname # l[k].fname}

\* Index files, by the values of their "path" lines.
IndexDescs ==
    {<<>>,
     <<PathLine(<<"/", "a">>)>>,
     <<PathLine(<<"/", "a">>), PathLine(<<"/", "r">>)>>,
     <<PathLine(<<"/", "b">>), PathLine(<<"/", "a", "/">>)>>,
     <<PathLine(<<"/", "a">>), PathLine(<<"/", "a", "/">>)>>}

NoDir == [r |-> <<>>, a |-> <<>>]

\* The listing of the directory at path p (walkdir of a missing directory
\* yields an error entry only, which filter_map(|e| e.ok()) drops).
listing(f, p) ==
    IF path_eq(p, <<"/", "r", "/", "s", "t", "e", "a", "m", "a", "p", "p", "s">>) THEN f.dirs.r
    ELSE IF path_eq(p, <<"/", "a", "/", "s", "t", "e", "a", "m", "a", "p", "p", "s">>) THEN f.dirs.a
    ELSE <<>>

DiscoverInit ==
    /\ \/ fs = [root_exists |-> FALSE, index |-> None, desc |-> <<>>,
                dirs |-> NoDir]
       \/ \E r \in Listings(RootFiles) :
             fs = [root_exists |-> TRUE, index |-> None, desc |-> <<>>,
                   dirs |-> [r |-> r, a |-> <<>>]]
       \/ \E d \in IndexDescs, r \in Listings(RootFiles),
             a \in Listings(ExtraFiles) :
             fs = [root_exists |-> TRUE, index |-> Some(render_vdf(d)),
                   desc |-> d, dirs |-> [r |-> r, a |-> a]]
    /\ library_paths = <<>>
    /\ lib_idx = 1
    /\ ent_idx = 1
    /\ seen = {}
    /\ found = <<>>
    /\ walk = <<>>
    /\ disc_pc = "start"

\* The root check and find_library_paths, steam.rs:309-312 and 233-237:
\* Err(NotFound) without a root, Err(Io) when the index cannot be read.
DiscoverStart ==
    /\ disc_pc = "start"
    /\ IF ~fs.root_exists
       THEN disc_pc' = "not_found" /\ UNCHANGED library_paths
       ELSE IF ~fs.index.some
       THEN disc_pc' = "io_error" /\ UNCHANGED library_paths
       ELSE /\ disc_pc' = "walk"
            /\ library_paths' =
                   parse_library_paths_from_vdf(fs.index.value, SteamRoot)
    /\ UNCHANGED <<fs, lib_idx, ent_idx, seen, found, walk>>

\* Mutant of WalkStep: a manifest that cannot be read or parsed ends the
\* call with an error instead of being skipped.
WalkStep_escalating ==
    /\ disc_pc = "walk"
    /\ lib_idx <= Len(library_paths)
    /\ ent_idx <= Len(listing(fs, library_paths[lib_idx]))
    /\ LET dir == library_paths[lib_idx]
           e == listing(fs, dir)[ent_idx]
           g == parse_acf_file(e, dir)
       IN  IF is_manifest_name(e.fname) /\ g.some
           THEN /\ walk' = Append(walk, g.value)
                /\ seen' = seen \cup {dedup_key(g.value)}
                /\ found' = IF dedup_key(g.value) \in seen THEN found
                            ELSE Append(found, g.value)
                /\ UNCHANGED disc_pc
           ELSE /\ disc_pc' = IF is_manifest_name(e.fname) THEN "io_error"
                              ELSE disc_pc
                /\ UNCHANGED <<walk, seen, found>>
    /\ ent_idx' = ent_idx + 1
    /\ UNCHANGED <<fs, library_paths, lib_idx>>

\* One directory entry goes through the iterator chain: the name filter,
\* parse_acf_file, and the seen filter (steam.rs:270-277, 316-317).
WalkStep ==
    /\ disc_pc = "walk"
    /\ lib_idx <= Len(library_paths)
    /\ ent_idx <= Len(listing(fs, library_paths[lib_idx]))
    /\ LET dir == library_paths[lib_idx]
           e == listing(fs, dir)[ent_idx]
           g == parse_acf_file(e, dir)
       IN  IF is_manifest_name(e.fname) /\ g.some
           THEN /\ walk' = Append(walk, g.value)
                /\ seen' = seen \cup {dedup_key(g.value)}
                /\ found' = IF dedup_key(g.value) \in seen THEN found
                            ELSE Append(found, g.value)
           ELSE UNCHANGED <<walk, seen, found>>
    /\ ent_idx' = ent_idx + 1
    /\ UNCHANGED <<fs, library_paths, lib_idx, disc_pc>>

\* A directory is exhausted: flat_map moves to the next library path.
NextDirectory ==
    /\ disc_pc = "walk"
    /\ lib_idx <= Len(library_paths)
    /\ ent_idx > Len(listing(fs, library_paths[lib_idx]))
    /\ lib_idx' = lib_idx + 1
    /\ ent_idx' = 1
    /\ UNCHANGED <<fs, library_paths, seen, found, walk, disc_pc>>

\* All library paths are walked: Ok(games), steam.rs:318-320.
WalkEnd ==
    /\ disc_pc = "walk"
    /\ lib_idx > Len(library_paths)
    /\ disc_pc' = "done"
    /\ UNCHANGED <<fs, library_paths, lib_idx, ent_idx, seen, found, walk>>


----------------------------------------------------------------------------
(* discover_shortcut_games, steam.rs:194-203, and get_steam_games,         *)
(* lib.rs:34-63                                                            *)

(***************************************************************************)
(* parse_shortcuts_vdf as a function of the buffer: the outer loop         *)
(* (scan_from) and the per-entry field loop (fields_from) of               *)
(* steam.rs:103-188, with the records pushed so far.  The result tells     *)
(* whether the call panicked and, if not, the records returned.            *)
(***************************************************************************)
RECURSIVE scan_from(_, _, _)
RECURSIVE fields_from(_, _, _, _, _, _)
scan_from(d, pos, gs) ==
    IF pos >= Len(d) THEN [panic |-> FALSE, games |-> gs]
    ELSE IF Byte(d, pos) # TYPE_MAP THEN scan_from(d, pos + 1, gs)
    ELSE LET key == read_cstring(d, pos + 1) IN
         IF numeric_key(key.s)
         THEN fields_from(d, key.pos, ZeroId, <<>>, <<>>, gs)
         ELSE scan_from(d, key.pos, gs)

fields_from(d, pos, id, name, ex, gs) ==
    IF pos < Len(d) /\ Byte(d, pos) # END_MAP
    THEN LET r == field_step(d, pos, id, name, ex) IN
         IF r.panic THEN [panic |-> TRUE, games |-> <<>>]
         ELSE fields_from(d, r.pos, r.app_id, r.app_name, r.exe, gs)
    ELSE scan_from(d, pos,
                   IF name # <<>>
                   THEN Append(gs, [app_id |-> id, app_name |-> name,
                                    exe |-> ex])
                   ELSE gs)

parse_shortcuts_vdf(d) == scan_from(d, 0, <<>>)

(***************************************************************************)
(* The userdata directory of the Steam root: None when read_dir fails      *)
(* (no such directory), otherwise one entry per user profile, in read_dir  *)
(* order.  A profile has a config/shortcuts.vdf or not (exists); the file  *)
(* holds bytes, or reading it fails (file = None).                         *)
(***************************************************************************)
NoProfileFile == [exists |-> FALSE, file |-> None]
UnreadableProfileFile == [exists |-> TRUE, file |-> None]
ProfileFile(bytes) == [exists |-> TRUE, file |-> Some(bytes)]

\* find_shortcuts_vdf_paths, steam.rs:55-71: the profiles whose
\* config/shortcuts.vdf exists, in read_dir order.
find_shortcuts_vdf_paths(ud) ==
    IF ~ud.some THEN <<>>
    ELSE SelectSeq(ud.value, LAMBDA p : p.exists)

\* `as u64` of a u32 (lib.rs:42): the same number, kept as a u64 is kept, by
\* its decimal numeral.  The numeral is found by dividing the two 16-bit
\* halves by ten, from the last digit to the first.
RECURSIVE u32_as_u64(_)
u32_as_u64(v) ==
    LET t == (v.hi % 10) * 65536 + v.lo
        q == [hi |-> v.hi \div 10, lo |-> t \div 10]
    IN  IF q.hi = 0 /\ q.lo = 0 THEN <<Digits[(t % 10) + 1]>>
        ELSE Append(u32_as_u64(q), Digits[(t % 10) + 1])

\* The conversion of get_steam_games, lib.rs:41-46.
as_steam_game(s) ==
    [app_id |-> u32_as_u64(s.app_id), name |-> s.app_name,
     install_dir |-> s.exe, is_shortcut |-> TRUE]

as_steam_games(ss) == [k \in 1..Len(ss) |-> as_steam_game(ss[k])]

\* Result<Vec<SteamGame>, String>
Ok(gs) == [ok |-> TRUE, games |-> gs, error |-> ""]
Err(e) == [ok |-> FALSE, games |-> <<>>, error |-> e]

\* Bound of the input space: user profiles under userdata.
MaxProfiles == 2

\* Two shortcut entries: 440 "HL" "/h" under key 0 and 7 "Q" "/q" under
\* key 1.
EntryHL ==
    [key |-> <<48>>,
     fields |-> <<IntField(<<97, 112, 112, 105, 100>>, [hi |-> 0, lo |-> 440]),
                  StrField(<<65, 112, 112, 78, 97, 109, 101>>, <<72, 76>>),
                  StrField(<<101, 120, 101>>, <<47, 104>>)>>]
EntryQ ==
    [key |-> <<49>>,
     fields |-> <<IntField(<<97, 112, 112, 105, 100>>, [hi |-> 0, lo |-> 7]),
                  StrField(<<65, 112, 112, 78, 97, 109, 101>>, <<81>>),
                  StrField(<<101, 120, 101>>, <<47, 113>>)>>]

\* Profiles: no shortcuts.vdf; an unreadable one; one entry; two entries;
\* the other entry alone; a buffer that ends inside a field name (the
\* decoder panics on it).
Profiles ==
    {NoProfileFile, UnreadableProfileFile,
     ProfileFile(enc_entries(<<EntryHL>>)),
     ProfileFile(enc_entries(<<EntryHL, EntryQ>>)),
     ProfileFile(enc_entries(<<EntryQ>>)),
     ProfileFile(<<0, 49, 0, 1>>)}

\* The Steam roots of the command: no root (or none resolved: steam.rs:303
\* gives the same NotFound); a root without a readable index; a root whose
\* index names the library /a, each library directory holding at most one
\* file.  The command reads userdata under $HOME/.local/share/Steam and
\* hands discover_games the default root, taken here to be the same
\* directory.
CommandRoot(f) ==
    \/ f = [root_exists |-> FALSE, index |-> None, desc |-> <<>>,
            dirs |-> NoDir]
    \/ f = [root_exists |-> TRUE, index |-> None, desc |-> <<>>,
            dirs |-> NoDir]
    \/ \E r \in Listings(RootFiles), a \in Listings(ExtraFiles) :
          /\ Len(r) <= 1 /\ Len(a) <= 1
          /\ f = [root_exists |-> TRUE,
                  index |-> Some(render_vdf(<<PathLine(<<"/", "a">>)>>)),
                  desc |-> <<PathLine(<<"/", "a">>)>>,
                  dirs |-> [r |-> r, a |-> a]]

\* userdata is a directory of the root: without a root there is none.
CommandInit ==
    /\ CommandRoot(fs)
    /\ \/ userdata = None
       \/ /\ fs.root_exists
          /\ \E ps \in SeqsUpTo(Profiles, MaxProfiles) : userdata = Some(ps)
    /\ prof_idx = 1
    /\ shortcuts = <<>>
    /\ cmd_pc = "shortcuts"
    /\ cmd_result = Err("")
    /\ library_paths = <<>>
    /\ lib_idx = 1
    /\ ent_idx = 1
    /\ seen = {}
    /\ found = <<>>
    /\ walk = <<>>
    /\ disc_pc = "start"

\* One shortcuts.vdf path goes through the flat_map of
\* discover_shortcut_games (steam.rs:197-201): a file that cannot be read
\* gives no records; a panic of the decoder unwinds through the command.
ReadShortcuts ==
    /\ cmd_pc = "shortcuts"
    /\ prof_idx <= Len(find_shortcuts_vdf_paths(userdata))
    /\ LET p == find_shortcuts_vdf_paths(userdata)[prof_idx]
           r == parse_shortcuts_vdf(p.file.value)
       IN  IF ~p.file.some
           THEN UNCHANGED <<shortcuts, cmd_pc>>
           ELSE IF r.panic
           THEN cmd_pc' = "panic" /\ UNCHANGED shortcuts
           ELSE shortcuts' = shortcuts \o r.games /\ UNCHANGED cmd_pc
    /\ prof_idx' = prof_idx + 1
    /\ UNCHANGED <<userdata, cmd_result>>

\* discover_shortcut_games returns; the command goes on to
\* steam::discover_games (lib.rs:39-49).
ShortcutsEnd ==
    /\ cmd_pc = "shortcuts"
    /\ prof_idx > Len(find_shortcuts_vdf_paths(userdata))
    /\ cmd_pc' = "steam"
    /\ UNCHANGED <<userdata, prof_idx, shortcuts, cmd_result>>

\* Mutant of CommandReturn: a shortcut whose identifier a native record
\* carries is left out.
CommandReturn_dedup ==
    /\ cmd_pc = "steam"
    /\ disc_pc \in {"done", "not_found", "io_error"}
    /\ cmd_result' =
           IF disc_pc = "done"
           THEN Ok(found \o SelectSeq(as_steam_games(shortcuts),
                                      LAMBDA s : \A k \in 1..Len(found) :
                                                    found[k].app_id # s.app_id))
           ELSE Err(disc_pc)
    /\ cmd_pc' = "returned"
    /\ UNCHANGED <<userdata, prof_idx, shortcuts>>

\* The match on the result of steam::discover_games (lib.rs:49-62): on Ok
\* the shortcuts are appended to the native records, on Err the error's
\* text is returned.
CommandReturn ==
    /\ cmd_pc = "steam"
    /\ disc_pc \in {"done", "not_found", "io_error"}
    /\ cmd_result' = IF disc_pc = "done"
                     THEN Ok(found \o as_steam_games(shortcuts))
                     ELSE Err(disc_pc)
    /\ cmd_pc' = "returned"
    /\ UNCHANGED <<userdata, prof_idx, shortcuts>>

----------------------------------------------------------------------------
(* The second client: epic.rs                                              *)

(***************************************************************************)
(* A manifest file is described by what serde_json sees in it: a JSON      *)
(* object is the sequence of its members (key, value) in file order; a     *)
(* value is a boolean, a string, null or a number.  A file's kind is       *)
(* "object", "invalid" (its text is not JSON) or "unreadable"              *)
(* (read_to_string fails: the file vanished, is a directory, is not        *)
(* UTF-8).  cover is what find_cover_image finds in the directory named    *)
(* by InstallLocation.  want is the record the file is expected to yield *)
(* (None: no record), for the files of the listings below.                *)
(***************************************************************************)
JBool(b) == [t |-> "bool", b |-> b, s |-> <<>>]
JStr(s) == [t |-> "str", b |-> FALSE, s |-> s]
JNull == [t |-> "null", b |-> FALSE, s |-> <<>>]
JNum == [t |-> "num", b |-> FALSE, s |-> <<>>]
\* no member of that key
JAbsent == [t |-> "absent", b |-> FALSE, s |-> <<>>]

Member(key, value) == [key |-> key, value |-> value]

ObjectFile(fname, members) ==
    [fname |-> fname, kind |-> "object", members |-> members, cover |-> None,
     want |-> None]
InvalidFile(fname) ==
    [fname |-> fname, kind |-> "invalid", members |-> <<>>, cover |-> None,
     want |-> None]
UnreadableFile(fname) ==
    [fname |-> fname, kind |-> "unreadable", members |-> <<>>, cover |-> None,
     want |-> None]

\* The keys of struct Manifest, epic.rs:47-61: rename_all = "PascalCase"
\* for the five strings, an explicit rename for each flag.
KEY_AppName == <<"A", "p", "p", "N", "a", "m", "e">>
KEY_DisplayName == <<"D", "i", "s", "p", "l", "a", "y", "N", "a", "m", "e">>
KEY_InstallLocation == <<"I", "n", "s", "t", "a", "l", "l", "L", "o", "c", "a", "t", "i", "o", "n">>
KEY_CatalogNamespace == <<"C", "a", "t", "a", "l", "o", "g", "N", "a", "m", "e", "s", "p", "a", "c", "e">>
KEY_CatalogItemId == <<"C", "a", "t", "a", "l", "o", "g", "I", "t", "e", "m", "I", "d">>
KEY_bIsApplication == <<"b", "I", "s", "A", "p", "p", "l", "i", "c", "a", "t", "i", "o", "n">>
KEY_bIsExecutable == <<"b", "I", "s", "E", "x", "e", "c", "u", "t", "a", "b", "l", "e">>
KEY_bIsIncompleteInstall == <<"b", "I", "s", "I", "n", "c", "o", "m", "p", "l", "e", "t", "e", "I", "n", "s", "t", "a", "l", "l">>

\* The members the derived Deserialize matches with a field: the key is
\* compared with the field's name byte for byte.
occurrences(members, key) == SelectSeq(members, LAMBDA m : m.key = key)

\* Deserialising an Option<String> field: absent or null is None, a string
\* is Some, any other value and a repeated key are errors.
de_string(members, key) ==
    LET occ == occurrences(members, key) IN
    IF Len(occ) > 1 THEN [ok |-> FALSE, value |-> None]
    ELSE IF Len(occ) = 0 THEN [ok |-> TRUE, value |-> None]
    ELSE IF occ[1].value.t = "null" THEN [ok |-> TRUE, value |-> None]
    ELSE IF occ[1].value.t = "str" THEN [ok |-> TRUE, value |-> Some(occ[1].value.s)]
    ELSE [ok |-> FALSE, value |-> None]

\* Deserialising a bool field with #[serde(default)]: absent is false, a
\* boolean is itself, any other value and a repeated key are errors.
de_bool(members, key) ==
    LET occ == occurrences(members, key) IN
    IF Len(occ) > 1 THEN [ok |-> FALSE, value |-> FALSE]
    ELSE IF Len(occ) = 0 THEN [ok |-> TRUE, value |-> FALSE]
    ELSE IF occ[1].value.t = "bool" THEN [ok |-> TRUE, value |-> occ[1].value.b]
    ELSE [ok |-> FALSE, value |-> FALSE]

\* serde_json::from_str::<Manifest>(..).ok(), epic.rs:125.
from_str(file) ==
    LET ms == file.members
        an == de_string(ms, KEY_AppName)
        dn == de_string(ms, KEY_DisplayName)
        il == de_string(ms, KEY_InstallLocation)
        cn == de_string(ms, KEY_CatalogNamespace)
        ci == de_string(ms, KEY_CatalogItemId)
        ba == de_bool(ms, KEY_bIsApplication)
        be == de_bool(ms, KEY_bIsExecutable)
        bi == de_bool(ms, KEY_bIsIncompleteInstall)
    IN  IF file.kind # "object" THEN None
        ELSE IF ~(an.ok /\ dn.ok /\ il.ok /\ cn.ok /\ ci.ok /\ ba.ok /\ be.ok /\ bi.ok)
        THEN None
        ELSE Some([app_name |-> an.value, display_name |-> dn.value,
                   install_location |-> il.value,
                   catalog_namespace |-> cn.value,
                   catalog_item_id |-> ci.value,
                   b_is_application |-> ba.value,
                   b_is_executable |-> be.value,
                   b_is_incomplete_install |-> bi.value])

\* Mutant of passes_filter: one good flag is enough.
passes_filter_any(m) ==
    m.b_is_application \/ m.b_is_executable \/ ~m.b_is_incomplete_install

\* The filter rules, epic.rs:128-130.
passes_filter(m) ==
    ~(~m.b_is_application \/ ~m.b_is_executable \/ m.b_is_incomplete_install)

\* Option::filter(|s| !s.is_empty()), epic.rs:132-134.
filter_non_empty(o) == IF o.some /\ o.value # <<>> THEN o ELSE None

\* Option::unwrap_or_default, epic.rs:135-136.
unwrap_or_default(o) == IF o.some THEN o.value ELSE <<>>

\* parse_manifest, epic.rs:123-149.
parse_manifest(file) ==
    LET m == from_str(file)
        app_name_ == filter_non_empty(m.value.app_name)
        display_name_ == filter_non_empty(m.value.display_name)
        install_location_ == filter_non_empty(m.value.install_location)
    IN  IF file.kind = "unreadable" THEN None
        ELSE IF ~m.some THEN None
        ELSE IF ~passes_filter(m.value) THEN None
        ELSE IF ~app_name_.some THEN None
        ELSE IF ~display_name_.some THEN None
        ELSE IF ~install_location_.some THEN None
        ELSE Some([app_name |-> app_name_.value,
                   display_name |-> display_name_.value,
                   install_location |-> install_location_.value,
                   catalog_namespace |-> unwrap_or_default(m.value.catalog_namespace),
                   catalog_item_id |-> unwrap_or_default(m.value.catalog_item_id),
                   cover_image |-> file.cover])

\* Position of the last "." of a file name, 0 when there is none.
last_dot(n) ==
    IF \E k \in 1..Len(n) : n[k] = "."
    THEN CHOOSE k \in 1..Len(n) :
             n[k] = "." /\ \A j \in (k + 1)..Len(n) : n[j] # "."
    ELSE 0

\* Path::extension of a file name: what follows the last ".", None
\* when there is no "." or the only one is the first character.
extension(n) ==
    IF last_dot(n) <= 1 THEN None
    ELSE Some(SubSeq(n, last_dot(n) + 1, Len(n)))

(***************************************************************************)
(* The manifest directory: "no_platform_dir" (manifest_dir() is None),     *)
(* "missing", "unreadable" (it exists and read_dir fails) or "listed"      *)
(* with its entries in read_dir order.                                     *)
(***************************************************************************)
EpicDir(state, family, entries) ==
    [dir |-> state, family |-> family, entries |-> entries]

\* The members of a manifest that passes: name is its AppName.
Identity(name) ==
    <<Member(KEY_AppName, JStr(name)),
      Member(KEY_DisplayName, JStr(name \o <<" ", "D">>)),
      Member(KEY_InstallLocation, JStr(<<"/", "g">>)),
      Member(KEY_CatalogNamespace, JStr(<<"n", "s">>)),
      Member(KEY_CatalogItemId, JStr(<<"i", "d">>))>>

GoodFlags ==
    <<Member(KEY_bIsApplication, JBool(TRUE)),
      Member(KEY_bIsExecutable, JBool(TRUE)),
      Member(KEY_bIsIncompleteInstall, JBool(FALSE))>>

RecordOf(name) ==
    [app_name |-> name, display_name |-> name \o <<" ", "D">>,
     install_location |-> <<"/", "g">>, catalog_namespace |-> <<"n", "s">>,
     catalog_item_id |-> <<"i", "d">>, cover_image |-> None]

\* A member in one of its states: absent, or present with a value.
OptMember(key, st) == IF st.t = "absent" THEN <<>> ELSE <<Member(key, st)>>

FlagStates == {JAbsent, JBool(TRUE), JBool(FALSE), JNull}
StringStates == {JAbsent, JNull, JNum, JStr(<<>>), JStr(<<"v">>)}
NamespaceStates == {JAbsent, JStr(<<>>), JStr(<<"n", "s">>)}

\* Other spellings of the eight keys.
Respell(key) ==
    CASE key = KEY_AppName -> {<<"a", "p", "p", "n", "a", "m", "e">>, <<"A", "P", "P", "N", "A", "M", "E">>}
      [] key = KEY_DisplayName -> {<<"d", "i", "s", "p", "l", "a", "y", "N", "a", "m", "e">>, <<"d", "i", "s", "p", "l", "a", "y", "n", "a", "m", "e">>}
      [] key = KEY_InstallLocation -> {<<"i", "n", "s", "t", "a", "l", "l", "L", "o", "c", "a", "t", "i", "o", "n">>, <<"I", "N", "S", "T", "A", "L", "L", "L", "O", "C", "A", "T", "I", "O", "N">>}
      [] key = KEY_CatalogNamespace -> {<<"c", "a", "t", "a", "l", "o", "g", "N", "a", "m", "e", "s", "p", "a", "c", "e">>, <<"c", "a", "t", "a", "l", "o", "g", "n", "a", "m", "e", "s", "p", "a", "c", "e">>}
      [] key = KEY_CatalogItemId -> {<<"c", "a", "t", "a", "l", "o", "g", "I", "t", "e", "m", "I", "d">>, <<"C", "a", "t", "a", "l", "o", "g", "I", "t", "e", "m", "I", "D">>}
      [] key = KEY_bIsApplication -> {<<"b", "i", "s", "a", "p", "p", "l", "i", "c", "a", "t", "i", "o", "n">>, <<"B", "I", "s", "A", "p", "p", "l", "i", "c", "a", "t", "i", "o", "n">>}
      [] key = KEY_bIsExecutable -> {<<"b", "i", "s", "e", "x", "e", "c", "u", "t", "a", "b", "l", "e">>, <<"B", "I", "s", "E", "x", "e", "c", "u", "t", "a", "b", "l", "e">>}
      [] key = KEY_bIsIncompleteInstall -> {<<"b", "i", "s", "i", "n", "c", "o", "m", "p", "l", "e", "t", "e", "i", "n", "s", "t", "a", "l", "l">>, <<"B", "I", "s", "I", "n", "c", "o", "m", "p", "l", "e", "t", "e", "I", "n", "s", "t", "a", "l", "l">>}

ManifestKeys ==
    {KEY_AppName, KEY_DisplayName, KEY_InstallLocation, KEY_CatalogNamespace,
     KEY_CatalogItemId, KEY_bIsApplication, KEY_bIsExecutable,
     KEY_bIsIncompleteInstall}

\* The members ms with key k spelled sp.
Spelled(ms, k, sp) ==
    [j \in 1..Len(ms) |-> IF ms[j].key = k THEN Member(sp, ms[j].value)
                          ELSE ms[j]]

\* Bound of the input space: entries of the manifest directory.
MaxEntries == 2

\* The files of the listings, each with the record expected of it: two
\* manifests that pass; a second manifest of the first one's AppName; text
\* that is not JSON; a file that cannot be read; a passing manifest under
\* another extension, under an upper-case extension and under the name
\* ".item" (no extension); an incomplete install; a manifest with a cover.
EpicFiles ==
    {[ObjectFile(<<"a", ".", "i", "t", "e", "m">>, Identity(<<"A">>) \o GoodFlags)
        EXCEPT !.want = Some(RecordOf(<<"A">>))],
     [ObjectFile(<<"b", ".", "i", "t", "e", "m">>, GoodFlags \o Identity(<<"B">>))
        EXCEPT !.want = Some(RecordOf(<<"B">>))],
     [ObjectFile(<<"a", "2", ".", "i", "t", "e", "m">>, Identity(<<"A">>) \o GoodFlags)
        EXCEPT !.want = Some(RecordOf(<<"A">>))],
     InvalidFile(<<"b", "a", "d", ".", "i", "t", "e", "m">>),
     UnreadableFile(<<"g", "o", "n", "e", ".", "i", "t", "e", "m">>),
     ObjectFile(<<"c", ".", "j", "s", "o", "n">>, Identity(<<"C">>) \o GoodFlags),
     ObjectFile(<<"d", ".", "I", "T", "E", "M">>, Identity(<<"D">>) \o GoodFlags),
     ObjectFile(<<".", "i", "t", "e", "m">>, Identity(<<"E">>) \o GoodFlags),
     ObjectFile(<<"f", ".", "i", "t", "e", "m">>,
                Identity(<<"F">>)
                    \o <<Member(KEY_bIsApplication, JBool(TRUE)),
                         Member(KEY_bIsExecutable, JBool(TRUE)),
                         Member(KEY_bIsIncompleteInstall, JBool(TRUE))>>),
     [ObjectFile(<<"h", ".", "i", "t", "e", "m">>, Identity(<<"H">>) \o GoodFlags)
        EXCEPT !.cover = Some(<<"/", "g", "/", "c", ".", "p", "n", "g">>),
               !.want = Some([RecordOf(<<"H">>)
                                EXCEPT !.cover_image = Some(<<"/", "g", "/", "c", ".", "p", "n", "g">>)])]}

\* The inputs: a directory that is absent or cannot be listed; one
\* manifest with every combination of flag states; one manifest with every
\* combination of states of its strings; one manifest with one key
\* respelled (the flags true, true, and false or true); listings of the
\* files above, no file twice.
EpicInput(f) ==
    \/ \E st \in {"no_platform_dir", "missing", "unreadable"} :
          f = EpicDir(st, "none", <<>>)
    \/ \E a \in FlagStates, e \in FlagStates, n \in FlagStates :
          f = EpicDir("listed", "flags",
                  <<ObjectFile(<<"a", ".", "i", "t", "e", "m">>,
                      Identity(<<"A">>) \o OptMember(KEY_bIsApplication, a)
                          \o OptMember(KEY_bIsExecutable, e)
                          \o OptMember(KEY_bIsIncompleteInstall, n))>>)
    \/ \E an \in StringStates, dn \in StringStates, il \in StringStates,
          cn \in NamespaceStates :
          f = EpicDir("listed", "strings",
                  <<ObjectFile(<<"a", ".", "i", "t", "e", "m">>,
                      OptMember(KEY_AppName, an)
                          \o OptMember(KEY_DisplayName, dn)
                          \o OptMember(KEY_InstallLocation, il)
                          \o OptMember(KEY_CatalogNamespace, cn)
                          \o <<Member(KEY_CatalogItemId, JStr(<<"i", "d">>))>>
                          \o GoodFlags)>>)
    \/ \E k \in ManifestKeys, inc \in BOOLEAN :
          \E sp \in Respell(k) :
              f = EpicDir("listed", "spelling",
                      <<ObjectFile(<<"a", ".", "i", "t", "e", "m">>,
                          Spelled(Identity(<<"A">>)
                                      \o <<Member(KEY_bIsApplication, JBool(TRUE)),
                                           Member(KEY_bIsExecutable, JBool(TRUE)),
                                           Member(KEY_bIsIncompleteInstall, JBool(inc))>>,
                                  k, sp))>>)
    \/ \E l \in SeqsUpTo(EpicFiles, MaxEntries) :
          /\ \A j, k \in 1..Len(l) : j # k => l[j].fname # l[k].fname
          /\ f = EpicDir("listed", "listing", l)

EpicInit ==
    /\ EpicInput(efs)
    /\ epic_idx = 1
    /\ epic_games = <<>>
    /\ epic_from = <<>>
    /\ epic_pc = "start"

\* Mutant of EpicStart: a missing directory is reported as an error.
EpicStart_missing_is_error ==
    /\ epic_pc = "start"
    /\ epic_pc' = CASE efs.dir = "no_platform_dir" -> "ok"
                    [] efs.dir = "missing" -> "io_error"
                    [] efs.dir = "unreadable" -> "io_error"
                    [] OTHER -> "entries"
    /\ UNCHANGED <<efs, epic_idx, epic_games, epic_from>>

\* discover_games, epic.rs:68-73, and the head of discover_games_from,
\* epic.rs:77-82: Ok(vec![]) without a directory, Err(Io) when read_dir
\* fails.
EpicStart ==
    /\ epic_pc = "start"
    /\ epic_pc' = CASE efs.dir = "no_platform_dir" -> "ok"
                    [] efs.dir = "missing" -> "ok"
                    [] efs.dir = "unreadable" -> "io_error"
                    [] OTHER -> "entries"
    /\ UNCHANGED <<efs, epic_idx, epic_games, epic_from>>

\* Mutant of EpicEntry: a .item file that yields no record ends the call
\* with an error.
EpicEntry_escalating ==
    /\ epic_pc = "entries"
    /\ epic_idx <= Len(efs.entries)
    /\ LET file == efs.entries[epic_idx]
           game == parse_manifest(file)
       IN  IF extension(file.fname) = Some(<<"i", "t", "e", "m">>) /\ game.some
           THEN /\ epic_games' = Append(epic_games, game.value)
                /\ epic_from' = Append(epic_from, epic_idx)
                /\ UNCHANGED epic_pc
           ELSE /\ epic_pc' = IF extension(file.fname) = Some(<<"i", "t", "e", "m">>)
                              THEN "io_error" ELSE epic_pc
                /\ UNCHANGED <<epic_games, epic_from>>
    /\ epic_idx' = epic_idx + 1
    /\ UNCHANGED efs

\* One directory entry of the for loop, epic.rs:84-91.
EpicEntry ==
    /\ epic_pc = "entries"
    /\ epic_idx <= Len(efs.entries)
    /\ LET file == efs.entries[epic_idx]
           game == parse_manifest(file)
       IN  IF extension(file.fname) = Some(<<"i", "t", "e", "m">>) /\ game.some
           THEN /\ epic_games' = Append(epic_games, game.value)
                /\ epic_from' = Append(epic_from, epic_idx)
           ELSE UNCHANGED <<epic_games, epic_from>>
    /\ epic_idx' = epic_idx + 1
    /\ UNCHANGED <<efs, epic_pc>>

\* The loop ends: Ok(games), epic.rs:93.
EpicEnd ==
    /\ epic_pc = "entries"
    /\ epic_idx > Len(efs.entries)
    /\ epic_pc' = "ok"
    /\ UNCHANGED <<efs, epic_idx, epic_games, epic_from>>

----------------------------------------------------------------------------
(* discover_games_at called twice by one caller, steam.rs:308-321 *)

\* What a call returned: how it ended and, for Ok, the list.
Outcome(how, gs) == [how |-> how, games |-> gs]
NoOutcome == Outcome("none", <<>>)

RepeatInit ==
    /\ call_no = 1
    /\ first = NoOutcome

\* Mutant of CallAgain: the seen set outlives the call.
CallAgain_keeps_seen ==
    /\ call_no = 1
    /\ disc_pc \in {"done", "not_found", "io_error"}
    /\ first' = Outcome(disc_pc, found)
    /\ call_no' = 2
    /\ library_paths' = <<>>
    /\ lib_idx' = 1
    /\ ent_idx' = 1
    /\ found' = <<>>
    /\ walk' = <<>>
    /\ disc_pc' = "start"
    /\ UNCHANGED <<fs, seen>>

\* The first call has returned and the caller keeps its result; the second
\* call starts with its own locals: library_paths, the iterator and a new
\* HashSet (steam.rs:312-314).  The file system is the same.
CallAgain ==
    /\ call_no = 1
    /\ disc_pc \in {"done", "not_found", "io_error"}
    /\ first' = Outcome(disc_pc, found)
    /\ call_no' = 2
    /\ library_paths' = <<>>
    /\ lib_idx' = 1
    /\ ent_idx' = 1
    /\ seen' = {}
    /\ found' = <<>>
    /\ walk' = <<>>
    /\ disc_pc' = "start"
    /\ UNCHANGED fs

----------------------------------------------------------------------------
(* library.rs: the JSON-backed store of custom games *)

\* A JSON array of strings, beside the values of the manifests above.
JArr(items) == [t |-> "arr", b |-> FALSE, s |-> items]

\* A byte of a path that is no valid UTF-8 (paths are OsStrings).
NON_UTF8 == "FF"

\* Path::to_str: None for a path that is not valid UTF-8.
to_str(p) == IF \E k \in 1..Len(p) : p[k] = NON_UTF8 THEN None ELSE Some(p)

\* CustomGame, library.rs:16-24.
CustomGame(id, title, executable, cover_image, tags, notes) ==
    [id |-> id, title |-> title, executable |-> executable,
     cover_image |-> cover_image, tags |-> tags, notes |-> notes]

KEY_id == "id"
KEY_title == "title"
KEY_executable == "executable"
KEY_cover_image == "cover_image"
KEY_tags == "tags"
KEY_notes == "notes"

\* Serialising an Option<String> or an Option<PathBuf>: null for None.
ser_option(o) == IF o.some THEN JStr(o.value) ELSE JNull

\* The derived Serialize of CustomGame (library.rs:16): one member per field
\* in declaration order; None when a path is not valid UTF-8, which serde's
\* impl for Path reports as an error.
serialize_game(g) ==
    IF ~to_str(g.executable).some THEN None
    ELSE IF g.cover_image.some /\ ~to_str(g.cover_image.value).some THEN None
    ELSE Some(<<Member(KEY_id, JStr(g.id)),
                Member(KEY_title, JStr(g.title)),
                Member(KEY_executable, JStr(g.executable)),
                Member(KEY_cover_image, ser_option(g.cover_image)),
                Member(KEY_tags, JArr(g.tags)),
                Member(KEY_notes, ser_option(g.notes))>>)

\* serde_json::to_string_pretty(&self.games), library.rs:109: the document,
\* an array of one object per game, or None for a serialisation error.
to_string_pretty(gs) ==
    IF \E k \in 1..Len(gs) : ~serialize_game(gs[k]).some THEN None
    ELSE Some([k \in 1..Len(gs) |-> serialize_game(gs[k]).value])

\* Deserialising a field without a default: exactly one member of that key,
\* holding a value of kind t.
de_required(members, key, t) ==
    LET occ == occurrences(members, key) IN
    IF Len(occ) = 1 /\ occ[1].value.t = t
    THEN [ok |-> TRUE, value |-> occ[1].value.s]
    ELSE [ok |-> FALSE, value |-> <<>>]

\* The derived Deserialize of CustomGame (library.rs:16): id, title,
\* executable and tags must be there; cover_image and notes may be absent
\* or null; unknown members are ignored.
deserialize_game(members) ==
    LET id == de_required(members, KEY_id, "str")
        title == de_required(members, KEY_title, "str")
        executable == de_required(members, KEY_executable, "str")
        cover_image == de_string(members, KEY_cover_image)
        tags == de_required(members, KEY_tags, "arr")
        notes == de_string(members, KEY_notes)
    IN  IF id.ok /\ title.ok /\ executable.ok /\ cover_image.ok /\ tags.ok
           /\ notes.ok
        THEN Some(CustomGame(id.value, title.value, executable.value,
                             cover_image.value, tags.value, notes.value))
        ELSE None

\* The backing file: missing, a JSON array of objects, bytes that are no
\* JSON document (an empty or cut-off file), or a file read_to_string
\* fails on.
NoFile == [kind |-> "absent", doc |-> <<>>]
DocFile(doc) == [kind |-> "doc", doc |-> doc]
GarbageFile == [kind |-> "garbage", doc |-> <<>>]

\* Result<Vec<CustomGame>, LibraryError>
LibOk(gs) == [ok |-> TRUE, games |-> gs, error |-> "none"]
LibErr(e) == [ok |-> FALSE, games |-> <<>>, error |-> e]

\* Library::load, library.rs:53-65: no file gives an empty library, a file
\* that is no array of games an error.
load(f) ==
    IF f.kind = "absent" THEN LibOk(<<>>)
    ELSE IF f.kind = "unreadable" THEN LibErr("Io")
    ELSE IF f.kind = "garbage" THEN LibErr("Json")
    ELSE IF \E k \in 1..Len(f.doc) : ~deserialize_game(f.doc[k]).some
    THEN LibErr("Json")
    ELSE LibOk([k \in 1..Len(f.doc) |-> deserialize_game(f.doc[k]).value])

\* Mutant of position: the last game with the id.
position_last(gs, id) ==
    IF \E k \in 1..Len(gs) : gs[k].id = id
    THEN CHOOSE k \in 1..Len(gs) :
             /\ gs[k].id = id
             /\ \A j \in (k + 1)..Len(gs) : gs[j].id # id
    ELSE 0

\* self.games.iter().position(|g| g.id == id), library.rs:79-83, 91-95: the
\* index (from 1) of the first game with the id, 0 for None.
position(gs, id) ==
    IF \E k \in 1..Len(gs) : gs[k].id = id
    THEN CHOOSE k \in 1..Len(gs) :
             /\ gs[k].id = id
             /\ \A j \in 1..(k - 1) : gs[j].id # id
    ELSE 0

\* Vec::remove: the vector without its k-th element.
vec_remove(gs, k) == SubSeq(gs, 1, k - 1) \o SubSeq(gs, k + 1, Len(gs))

(***************************************************************************)
(* Library::persist, library.rs:105-112, for the list gs and the file f.   *)
(* io is what the file system does: "ok"; "mkdir" (create_dir_all fails:   *)
(* an Io error before anything is serialised or written); "cut" (fs::write *)
(* fails after it truncated the file).  The list is serialised between     *)
(* create_dir_all and fs::write.                                           *)
(***************************************************************************)
persist(gs, f, io) ==
    IF io = "mkdir" THEN [error |-> "Io", file |-> f]
    ELSE IF ~to_string_pretty(gs).some THEN [error |-> "Json", file |-> f]
    ELSE IF io = "cut" THEN [error |-> "Io", file |-> GarbageFile]
    ELSE [error |-> "none", file |-> DocFile(to_string_pretty(gs).value)]

IoOutcomes == {"ok", "mkdir", "cut"}

\* Bound of the input space: games held by the library.
MaxGames == 2

\* Games handed to add and update: two with the id "1", one with the id
\* "2", one whose executable is no valid UTF-8.
Game1 == CustomGame(<<"1">>, <<"A">>, <<"/", "a">>, None, <<>>, None)
Game1b ==
    CustomGame(<<"1">>, <<"B">>, <<"/", "b">>, Some(<<"/", "c">>),
               <<<<"t">>>>, Some(<<>>))
Game2 == CustomGame(<<"2">>, <<"C">>, <<"/", "c">>, None, <<<<"t">>, <<>>>>, None)
Game3 == CustomGame(<<"3">>, <<"D">>, <<"/", NON_UTF8>>, None, <<>>, None)
GamePool == {Game1, Game1b, Game2, Game3}

\* Ids handed to remove: of the games above, and of no game.
IdPool == {<<"1">>, <<"2">>, <<"3">>, <<"9">>}

\* Files found at the path when the library is loaded: none; an empty one;
\* an empty array; the file persist wrote for two games; an object with a
\* member more and without notes and cover_image; an object without tags;
\* a file that cannot be read.
UnreadableStore == [kind |-> "unreadable", doc |-> <<>>]
InitialFiles ==
    {NoFile, GarbageFile, DocFile(<<>>),
     DocFile(to_string_pretty(<<Game1, Game2>>).value),
     DocFile(<<<<Member("added", JNum), Member(KEY_tags, JArr(<<>>)),
                 Member(KEY_executable, JStr(<<"/", "a">>)),
                 Member(KEY_title, JStr(<<"A">>)),
                 Member(KEY_id, JStr(<<"1">>))>>>>),
     DocFile(<<<<Member(KEY_id, JStr(<<"1">>)),
                 Member(KEY_title, JStr(<<"A">>)),
                 Member(KEY_executable, JStr(<<"/", "a">>))>>>>),
     UnreadableStore}

\* What the last call was and how it ended.
Call(op, id, game, error) == [op |-> op, id |-> id, game |-> game, error |-> error]
NoCall == Call("none", <<>>, Game1, "none")

StoreInit ==
    /\ store_file \in InitialFiles
    /\ store_games = <<>>
    /\ store_pc = "new"
    /\ store_before = <<>>
    /\ store_last = NoCall
    /\ store_ok = TRUE

\* Library::load at start-up, library.rs:53-65.
LibLoad ==
    /\ store_pc = "new"
    /\ LET r == load(store_file) IN
       IF r.ok
       THEN store_games' = r.games /\ store_pc' = "loaded"
       ELSE store_pc' = "load_failed" /\ UNCHANGED store_games
    /\ UNCHANGED <<store_file, store_before, store_last, store_ok>>

\* Library::add, library.rs:71-76: push, then persist.
LibAdd ==
    /\ store_pc = "loaded"
    /\ Len(store_games) < MaxGames
    /\ \E g \in GamePool, io \in IoOutcomes :
          LET pushed == Append(store_games, g)
              p == persist(pushed, store_file, io)
          IN  /\ store_games' = pushed
              /\ store_file' = p.file
              /\ store_last' = Call("add", g.id, g, p.error)
              /\ store_ok' = (store_ok /\ p.error = "none")
    /\ store_before' = store_games
    /\ UNCHANGED store_pc

\* Library::remove, library.rs:78-88: NotFound for an id no game has; else
\* the first game with the id is taken out, then persist.
LibRemove ==
    /\ store_pc = "loaded"
    /\ \E id \in IdPool :
          LET index == position(store_games, id) IN
          IF index = 0
          THEN /\ store_last' = Call("remove", id, Game1, "NotFound")
               /\ store_ok' = FALSE
               /\ UNCHANGED <<store_games, store_file>>
          ELSE \E io \in IoOutcomes :
               LET left == vec_remove(store_games, index)
                   p == persist(left, store_file, io)
               IN  /\ store_games' = left
                   /\ store_file' = p.file
                   /\ store_last' = Call("remove", id, store_games[index], p.error)
                   /\ store_ok' = (store_ok /\ p.error = "none")
    /\ store_before' = store_games
    /\ UNCHANGED store_pc

\* Mutant of LibUpdate: a game whose id no game has is added.
LibUpdate_upsert ==
    /\ store_pc = "loaded"
    /\ \E updated \in GamePool, io \in IoOutcomes :
          LET index == position(store_games, updated.id)
              put == IF index = 0 THEN Append(store_games, updated)
                     ELSE [store_games EXCEPT ![index] = updated]
              p == persist(put, store_file, io)
          IN  /\ store_games' = put
              /\ store_file' = p.file
              /\ store_last' = Call("update", updated.id, updated, p.error)
              /\ store_ok' = (store_ok /\ p.error = "none")
    /\ store_before' = store_games
    /\ UNCHANGED store_pc

\* Library::update, library.rs:90-99: NotFound for an id no game has; else
\* the first game with the id is replaced, then persist.
LibUpdate ==
    /\ store_pc = "loaded"
    /\ \E updated \in GamePool :
          LET index == position(store_games, updated.id) IN
          IF index = 0
          THEN /\ store_last' = Call("update", updated.id, updated, "NotFound")
               /\ store_ok' = FALSE
               /\ UNCHANGED <<store_games, store_file>>
          ELSE \E io \in IoOutcomes :
               LET put == [store_games EXCEPT ![index] = updated]
                   p == persist(put, store_file, io)
               IN  /\ store_games' = put
                   /\ store_file' = p.file
                   /\ store_last' = Call("update", updated.id, updated, p.error)
                   /\ store_ok' = (store_ok /\ p.error = "none")
    /\ store_before' = store_games
    /\ UNCHANGED store_pc

----------------------------------------------------------------------------
(* lib.rs: the commands on the custom games, run on concurrent threads *)

\* Bound of the input space: commands running at the same time.
MaxThreads == 3

\* A command, with what the file system will do to its write.
Command(op, id, game, io) == [op |-> op, id |-> id, game |-> game, io |-> io]

\* The game add_game builds: CustomGame::new gives it a fresh id
\* (library.rs:27-42), here one per thread.
NewGame(t) ==
    CustomGame(<<"u", Digits[t + 1]>>, <<"N">>, <<"/", "n">>, None, <<>>, None)

\* The commands a thread may run: add_game, remove_game of a stored id and
\* of an unknown one, each with a write that succeeds or is cut off, and
\* get_custom_games.
CommandsOf(t) ==
    <<Command("add", NewGame(t).id, NewGame(t), "ok"),
      Command("add", NewGame(t).id, NewGame(t), "cut"),
      Command("remove", <<"1">>, Game1, "ok"),
      Command("remove", <<"1">>, Game1, "cut"),
      Command("remove", <<"9">>, Game1, "ok"),
      Command("get", <<>>, Game1, "ok")>>

\* What a command returned: its error, and for get_custom_games the list.
Returned(error, gs) == [error |-> error, games |-> gs]
NotReturned == Returned("pending", <<>>)

\* A thread: its command, its place in it, the JSON text persist holds
\* between serialising and writing, and what the command returned.
Thread(cmd) == [cmd |-> cmd, pc |-> "start", json |-> None, out |-> NotReturned]

\* The library the commands run on, as Library::load left it (lib.rs:208,
\* 211): empty without a file, or the two games of the file.
LoadedLibraries ==
    {[file |-> NoFile, games |-> <<>>],
     [file |-> DocFile(to_string_pretty(<<Game1, Game2>>).value),
      games |-> <<Game1, Game2>>]}

\* A command run alone on the library (games gs, file f): the library it
\* leaves and what it returns.
run_alone(gs, f, cmd) ==
    IF cmd.op = "get" THEN [games |-> gs, file |-> f, out |-> Returned("none", gs)]
    ELSE IF cmd.op = "add"
    THEN LET p == persist(Append(gs, cmd.game), f, cmd.io) IN
         [games |-> Append(gs, cmd.game), file |-> p.file,
          out |-> Returned(p.error, <<>>)]
    ELSE IF position(gs, cmd.id) = 0
    THEN [games |-> gs, file |-> f, out |-> Returned("NotFound", <<>>)]
    ELSE LET left == vec_remove(gs, position(gs, cmd.id))
             p == persist(left, f, cmd.io)
         IN  [games |-> left, file |-> p.file, out |-> Returned(p.error, <<>>)]

\* One to MaxThreads threads, each about to run a command; threads differ
\* in nothing but their command, so the commands are listed in order.
MutexInit ==
    /\ \E n \in 1..MaxThreads :
          \E c \in [1..n -> 1..Len(CommandsOf(1))] :
              /\ \A t \in 1..(n - 1) : c[t] <= c[t + 1]
              /\ threads = [t \in 1..n |-> Thread(CommandsOf(t)[c[t]])]
    /\ \E l \in LoadedLibraries :
          /\ store_file = l.file
          /\ store_games = l.games
          /\ serial = [games |-> l.games, file |-> l.file,
                       outs |-> [t \in 1..MaxThreads |-> NotReturned]]
    /\ store_pc = "loaded"
    /\ store_before = <<>>
    /\ store_last = NoCall
    /\ store_ok = TRUE
    /\ lock = 0
    /\ order = <<>>

\* Mutant of Lock: the lock is taken whether or not it is held.
Lock_no_exclusion(t) ==
    /\ threads[t].pc = "start"
    /\ lock' = t
    /\ order' = Append(order, t)
    /\ threads' = [threads EXCEPT ![t].pc = "locked"]
    /\ LET r == run_alone(serial.games, serial.file, threads[t].cmd) IN
       serial' = [games |-> r.games, file |-> r.file,
                  outs |-> [serial.outs EXCEPT ![t] = r.out]]
    /\ UNCHANGED storeVars

\* state.library.lock().unwrap() (lib.rs:81, 105-107, 121-123): the thread
\* gets the Mutex when no thread holds it.  From here on serial is what the
\* commands give when they run alone, one after the other, in the order in
\* which they got the lock.
Lock(t) ==
    /\ threads[t].pc = "start"
    /\ lock = 0
    /\ lock' = t
    /\ order' = Append(order, t)
    /\ threads' = [threads EXCEPT ![t].pc = "locked"]
    /\ LET r == run_alone(serial.games, serial.file, threads[t].cmd) IN
       serial' = [games |-> r.games, file |-> r.file,
                  outs |-> [serial.outs EXCEPT ![t] = r.out]]
    /\ UNCHANGED storeVars

\* games().to_vec() under the lock, lib.rs:81.
GetClone(t) ==
    /\ threads[t].pc = "locked"
    /\ threads[t].cmd.op = "get"
    /\ threads' = [threads EXCEPT ![t].pc = "unlock",
                                  ![t].out = Returned("none", store_games)]
    /\ UNCHANGED <<storeVars, lock, order, serial>>

\* self.games.push(game), library.rs:72.
AddPush(t) ==
    /\ threads[t].pc = "locked"
    /\ threads[t].cmd.op = "add"
    /\ store_games' = Append(store_games, threads[t].cmd.game)
    /\ threads' = [threads EXCEPT ![t].pc = "persist"]
    /\ UNCHANGED <<store_file, store_pc, store_before, store_last, store_ok,
                   lock, order, serial>>

\* The lookup of remove and self.games.remove(index), library.rs:79-84.
RemoveTake(t) ==
    /\ threads[t].pc = "locked"
    /\ threads[t].cmd.op = "remove"
    /\ LET index == position(store_games, threads[t].cmd.id) IN
       IF index = 0
       THEN /\ threads' = [threads EXCEPT ![t].pc = "unlock",
                                          ![t].out = Returned("NotFound", <<>>)]
            /\ UNCHANGED store_games
       ELSE /\ store_games' = vec_remove(store_games, index)
            /\ threads' = [threads EXCEPT ![t].pc = "persist"]
    /\ UNCHANGED <<store_file, store_pc, store_before, store_last, store_ok,
                   lock, order, serial>>

\* The first half of persist, library.rs:106-109: the list as it is now is
\* turned into text.
Serialize(t) ==
    /\ threads[t].pc = "persist"
    /\ LET json == to_string_pretty(store_games) IN
       IF json.some
       THEN threads' = [threads EXCEPT ![t].pc = "write", ![t].json = json]
       ELSE threads' = [threads EXCEPT ![t].pc = "unlock",
                                       ![t].out = Returned("Json", <<>>)]
    /\ UNCHANGED <<storeVars, lock, order, serial>>

\* std::fs::write(&self.path, json), library.rs:110, and the return of the
\* command's result.
Write(t) ==
    /\ threads[t].pc = "write"
    /\ IF threads[t].cmd.io = "cut"
       THEN /\ store_file' = GarbageFile
            /\ threads' = [threads EXCEPT ![t].pc = "unlock", ![t].json = None,
                                          ![t].out = Returned("Io", <<>>)]
       ELSE /\ store_file' = DocFile(threads[t].json.value)
            /\ threads' = [threads EXCEPT ![t].pc = "unlock", ![t].json = None,
                                          ![t].out = Returned("none", <<>>)]
    /\ UNCHANGED <<store_games, store_pc, store_before, store_last, store_ok,
                   lock, order, serial>>

\* The MutexGuard is dropped at the end of the command's statement.
Unlock(t) ==
    /\ threads[t].pc = "unlock"
    /\ lock' = 0
    /\ threads' = [threads EXCEPT ![t].pc = "done"]
    /\ UNCHANGED <<storeVars, order, serial>>
----------------------------------------------------------------------------
(* Components that take no step in a specification stay at these values.   *)

AcfIdle ==
    /\ contents = <<>>
    /\ steamapps_dir = <<>>
    /\ acf_desc = [appid |-> Absent, name |-> Absent, installdir |-> Absent,
                   order |-> "fwd", layout |-> "flat"]
    /\ acf_pc = "returned"
    /\ acf_result = None

LibraryIdle ==
    /\ vdf = <<>>
    /\ steam_root = <<>>
    /\ vdf_desc = <<>>
    /\ line_no = 0
    /\ paths = <<>>
    /\ lib_pc = "done"

DiscoverIdle ==
    /\ fs = [root_exists |-> FALSE, index |-> None, desc |-> <<>>, dirs |-> NoDir]
    /\ library_paths = <<>>
    /\ lib_idx = 1
    /\ ent_idx = 1
    /\ seen = {}
    /\ found = <<>>
    /\ walk = <<>>
    /\ disc_pc = "done"

ShortcutIdle ==
    /\ shape = NoShape
    /\ data = <<>>
    /\ i = 0
    /\ pc = "done"
    /\ games = <<>>
    /\ app_id = ZeroId
    /\ app_name = <<>>
    /\ exe = <<>>
    /\ entry_at = 0
    /\ emitted_at = <<>>
    /\ iters = 0


CommandIdle ==
    /\ userdata = None
    /\ prof_idx = 1
    /\ shortcuts = <<>>
    /\ cmd_pc = "returned"
    /\ cmd_result = Err("")

EpicIdle ==
    /\ efs = EpicDir("missing", "none", <<>>)
    /\ epic_idx = 1
    /\ epic_games = <<>>
    /\ epic_from = <<>>
    /\ epic_pc = "ok"

RepeatIdle ==
    /\ call_no = 1
    /\ first = NoOutcome

StoreIdle ==
    /\ store_file = NoFile
    /\ store_games = <<>>
    /\ store_pc = "idle"
    /\ store_before = <<>>
    /\ store_last = NoCall
    /\ store_ok = TRUE

MutexIdle ==
    /\ threads = <<>>
    /\ lock = 0
    /\ order = <<>>
    /\ serial = [games |-> <<>>, file |-> NoFile, outs |-> <<>>]
----------------------------------------------------------------------------
(* Specifications *)

\* Spec: the shortcut decoder run on every input buffer.

Init == ShortcutInit /\ AcfIdle /\ LibraryIdle /\ DiscoverIdle
    /\ CommandIdle /\ EpicIdle /\ RepeatIdle /\ StoreIdle /\ MutexIdle

Next ==
    \/ ScanStep /\ UNCHANGED <<acfVars, libraryVars, discoverVars, commandVars, epicVars, repeatVars, storeVars, mutexVars>>
    \/ ScanEnd /\ UNCHANGED <<acfVars, libraryVars, discoverVars, commandVars, epicVars, repeatVars, storeVars, mutexVars>>
    \/ FieldStep /\ UNCHANGED <<acfVars, libraryVars, discoverVars, commandVars, epicVars, repeatVars, storeVars, mutexVars>>
    \/ EmitEntry /\ UNCHANGED <<acfVars, libraryVars, discoverVars, commandVars, epicVars, repeatVars, storeVars, mutexVars>>

Spec == Init /\ [][Next]_vars

\* SpecAcf: parse_acf called on every manifest text.
InitAcf == ShortcutIdle /\ AcfInit /\ LibraryIdle /\ DiscoverIdle
    /\ CommandIdle /\ EpicIdle /\ RepeatIdle /\ StoreIdle /\ MutexIdle

NextAcf == ParseAcf /\ UNCHANGED <<shortcutVars, libraryVars, discoverVars, commandVars, epicVars, repeatVars, storeVars, mutexVars>>

SpecAcf == InitAcf /\ [][NextAcf]_vars


\* SpecLibrary: parse_library_paths_from_vdf run on every index text.
InitLibrary == ShortcutIdle /\ AcfIdle /\ LibraryInit /\ DiscoverIdle
    /\ CommandIdle /\ EpicIdle /\ RepeatIdle /\ StoreIdle /\ MutexIdle

NextLibrary ==
    \/ LineStep /\ UNCHANGED <<shortcutVars, acfVars, discoverVars, commandVars, epicVars, repeatVars, storeVars, mutexVars>>
    \/ LinesEnd /\ UNCHANGED <<shortcutVars, acfVars, discoverVars, commandVars, epicVars, repeatVars, storeVars, mutexVars>>

SpecLibrary == InitLibrary /\ [][NextLibrary]_vars

\* SpecDiscover: discover_games_at run on every file system.
InitDiscover == ShortcutIdle /\ AcfIdle /\ LibraryIdle /\ DiscoverInit
    /\ CommandIdle /\ EpicIdle /\ RepeatIdle /\ StoreIdle /\ MutexIdle

NextDiscover ==
    \/ DiscoverStart /\ UNCHANGED <<shortcutVars, acfVars, libraryVars, commandVars, epicVars, repeatVars, storeVars, mutexVars>>
    \/ WalkStep /\ UNCHANGED <<shortcutVars, acfVars, libraryVars, commandVars, epicVars, repeatVars, storeVars, mutexVars>>
    \/ NextDirectory /\ UNCHANGED <<shortcutVars, acfVars, libraryVars, commandVars, epicVars, repeatVars, storeVars, mutexVars>>
    \/ WalkEnd /\ UNCHANGED <<shortcutVars, acfVars, libraryVars, commandVars, epicVars, repeatVars, storeVars, mutexVars>>

SpecDiscover == InitDiscover /\ [][NextDiscover]_vars


\* SpecCommand: get_steam_games run on every userdata directory and root.
InitCommand == ShortcutIdle /\ AcfIdle /\ LibraryIdle /\ CommandInit
    /\ EpicIdle /\ RepeatIdle /\ StoreIdle /\ MutexIdle

NextCommand ==
    \/ ReadShortcuts /\ UNCHANGED <<shortcutVars, acfVars, libraryVars, discoverVars, epicVars, repeatVars, storeVars, mutexVars>>
    \/ ShortcutsEnd /\ UNCHANGED <<shortcutVars, acfVars, libraryVars, discoverVars, epicVars, repeatVars, storeVars, mutexVars>>
    \/ cmd_pc = "steam" /\ DiscoverStart /\ UNCHANGED <<shortcutVars, acfVars, libraryVars, commandVars, epicVars, repeatVars, storeVars, mutexVars>>
    \/ cmd_pc = "steam" /\ WalkStep /\ UNCHANGED <<shortcutVars, acfVars, libraryVars, commandVars, epicVars, repeatVars, storeVars, mutexVars>>
    \/ cmd_pc = "steam" /\ NextDirectory /\ UNCHANGED <<shortcutVars, acfVars, libraryVars, commandVars, epicVars, repeatVars, storeVars, mutexVars>>
    \/ cmd_pc = "steam" /\ WalkEnd /\ UNCHANGED <<shortcutVars, acfVars, libraryVars, commandVars, epicVars, repeatVars, storeVars, mutexVars>>
    \/ CommandReturn /\ UNCHANGED <<shortcutVars, acfVars, libraryVars, discoverVars, epicVars, repeatVars, storeVars, mutexVars>>

SpecCommand == InitCommand /\ [][NextCommand]_vars

\* SpecEpic: the second client's discovery run on every manifest directory.
InitEpic == ShortcutIdle /\ AcfIdle /\ LibraryIdle /\ DiscoverIdle
    /\ CommandIdle /\ EpicInit /\ RepeatIdle /\ StoreIdle /\ MutexIdle

NextEpic ==
    \/ EpicStart /\ UNCHANGED <<shortcutVars, acfVars, libraryVars, discoverVars, commandVars, repeatVars, storeVars, mutexVars>>
    \/ EpicEntry /\ UNCHANGED <<shortcutVars, acfVars, libraryVars, discoverVars, commandVars, repeatVars, storeVars, mutexVars>>
    \/ EpicEnd /\ UNCHANGED <<shortcutVars, acfVars, libraryVars, discoverVars, commandVars, repeatVars, storeVars, mutexVars>>

SpecEpic == InitEpic /\ [][NextEpic]_vars

\* SpecRepeat: discover_games_at called, and called again once it returned,
\* on every file system.
InitRepeat == ShortcutIdle /\ AcfIdle /\ LibraryIdle /\ DiscoverInit
    /\ CommandIdle /\ EpicIdle /\ RepeatInit /\ StoreIdle /\ MutexIdle

NextRepeat ==
    \/ DiscoverStart /\ UNCHANGED <<shortcutVars, acfVars, libraryVars, commandVars, epicVars, repeatVars, storeVars, mutexVars>>
    \/ WalkStep /\ UNCHANGED <<shortcutVars, acfVars, libraryVars, commandVars, epicVars, repeatVars, storeVars, mutexVars>>
    \/ NextDirectory /\ UNCHANGED <<shortcutVars, acfVars, libraryVars, commandVars, epicVars, repeatVars, storeVars, mutexVars>>
    \/ WalkEnd /\ UNCHANGED <<shortcutVars, acfVars, libraryVars, commandVars, epicVars, repeatVars, storeVars, mutexVars>>
    \/ CallAgain /\ UNCHANGED <<shortcutVars, acfVars, libraryVars, commandVars, epicVars, storeVars, mutexVars>>

SpecRepeat == InitRepeat /\ [][NextRepeat]_vars


\* SpecStore: a library loaded from every file, then calls of add, remove
\* and update with every outcome of the file system.
InitStore == ShortcutIdle /\ AcfIdle /\ LibraryIdle /\ DiscoverIdle
    /\ CommandIdle /\ EpicIdle /\ RepeatIdle /\ StoreInit /\ MutexIdle

NextStore ==
    \/ LibLoad /\ UNCHANGED <<shortcutVars, acfVars, libraryVars, discoverVars, commandVars, epicVars, repeatVars, mutexVars>>
    \/ LibAdd /\ UNCHANGED <<shortcutVars, acfVars, libraryVars, discoverVars, commandVars, epicVars, repeatVars, mutexVars>>
    \/ LibRemove /\ UNCHANGED <<shortcutVars, acfVars, libraryVars, discoverVars, commandVars, epicVars, repeatVars, mutexVars>>
    \/ LibUpdate /\ UNCHANGED <<shortcutVars, acfVars, libraryVars, discoverVars, commandVars, epicVars, repeatVars, mutexVars>>

SpecStore == InitStore /\ [][NextStore]_vars


\* SpecMutex: up to MaxThreads commands on one AppState, their steps
\* interleaved in every way the Mutex allows.
InitMutex == ShortcutIdle /\ AcfIdle /\ LibraryIdle /\ DiscoverIdle
    /\ CommandIdle /\ EpicIdle /\ RepeatIdle /\ MutexInit

NextMutex ==
    \/ \E t \in 1..Len(threads) : Lock(t) /\ UNCHANGED <<shortcutVars, acfVars, libraryVars, discoverVars, commandVars, epicVars, repeatVars>>
    \/ \E t \in 1..Len(threads) : GetClone(t) /\ UNCHANGED <<shortcutVars, acfVars, libraryVars, discoverVars, commandVars, epicVars, repeatVars>>
    \/ \E t \in 1..Len(threads) : AddPush(t) /\ UNCHANGED <<shortcutVars, acfVars, libraryVars, discoverVars, commandVars, epicVars, repeatVars>>
    \/ \E t \in 1..Len(threads) : RemoveTake(t) /\ UNCHANGED <<shortcutVars, acfVars, libraryVars, discoverVars, commandVars, epicVars, repeatVars>>
    \/ \E t \in 1..Len(threads) : Serialize(t) /\ UNCHANGED <<shortcutVars, acfVars, libraryVars, discoverVars, commandVars, epicVars, repeatVars>>
    \/ \E t \in 1..Len(threads) : Write(t) /\ UNCHANGED <<shortcutVars, acfVars, libraryVars, discoverVars, commandVars, epicVars, repeatVars>>
    \/ \E t \in 1..Len(threads) : Unlock(t) /\ UNCHANGED <<shortcutVars, acfVars, libraryVars, discoverVars, commandVars, epicVars, repeatVars>>

SpecMutex == InitMutex /\ [][NextMutex]_vars
----------------------------------------------------------------------------
(* Claims about parse_shortcuts_vdf *)

\* C1: parse_shortcuts_vdf never panics: no read or slice past the buffer
\* ever occurs, whatever the buffer.
C1_NeverPanics == pc # "panic"


\* The entry has a string field called AppName (in any case) whose value is
\* not empty.
HasDisplayName(e) ==
    \E k \in 1..Len(e.fields) :
        /\ e.fields[k].tag = TYPE_STRING
        /\ eq_ignore_ascii_case(e.fields[k].name, STR_appname)
        /\ e.fields[k].payload # <<0>>

\* C2: a buffer of one map with a numeric key and the fields appid = v,
\* AppName = n, exe = e decodes to exactly one record (v, n, e), v read
\* little-endian unsigned, whatever the case of the three field names.
C2_SingleEntryDecoded ==
    (pc = "done" /\ shape.family = "single") => games = shape.want

\* C2 reached with an id above 2^31 and upper-case field names.
C2_Witness ==
    /\ pc = "done"
    /\ shape.family = "single"
    /\ games = shape.want
    /\ games[1].app_id = [hi |-> 65535, lo |-> 65535]
    /\ \E k \in 1..3 : shape.entries[1].fields[k].name = <<65, 80, 80, 73, 68>>
    /\ \E k \in 1..3 : shape.entries[1].fields[k].name = <<69, 88, 69>>

\* C3: every record returned has a non-empty app_name, and an entry of a
\* complete well-formed buffer that has no AppName string field, or only
\* empty ones, produces no record even if it carries an appid and an exe.
C3_NoNamelessRecord ==
    /\ \A k \in 1..Len(games) : games[k].app_name # <<>>
    /\ (pc = "done" /\ Complete(shape)) =>
          \A k \in 1..Len(shape.entries) :
              ~HasDisplayName(shape.entries[k]) =>
                  \A j \in 1..Len(emitted_at) :
                      emitted_at[j] # entry_offset(shape.entries, k)

\* C3 reached: a first entry with appid and exe but no AppName, followed by
\* a named entry; only the second one is returned.
C3_Witness ==
    /\ pc = "done"
    /\ shape.family = "mixed"
    /\ Len(shape.entries) = 2
    /\ Len(shape.entries[1].fields) = 2
    /\ shape.entries[1].fields[1].name = STR_appid
    /\ shape.entries[1].fields[1].tag = TYPE_INT32
    /\ shape.entries[1].fields[2].name = STR_exe
    /\ HasDisplayName(shape.entries[2])
    /\ Len(games) = 1
    /\ emitted_at = <<entry_offset(shape.entries, 2)>>

\* C4: of two well-formed entries back to back, the first holding a field
\* with an unknown tag, its name and a one-byte payload, both are returned
\* in buffer order with their values, the second decoded from its own
\* map-start byte.
C4_UnknownTagKeepsSync ==
    (pc = "done" /\ shape.family = "unknown") =>
        /\ games = shape.want
        /\ emitted_at = <<0, entry_offset(shape.entries, 2)>>

\* C4 reached with an unknown field whose payload byte is the map-end byte.
C4_Witness ==
    /\ pc = "done"
    /\ shape.family = "unknown"
    /\ \E k \in 1..4 : /\ shape.entries[1].fields[k].tag = 255
                       /\ shape.entries[1].fields[k].payload = <<8>>
    /\ Len(games) = 2
    /\ emitted_at[2] = entry_offset(shape.entries, 2)

----------------------------------------------------------------------------
(* Claims about parse_acf *)

\* The value is a run of one or more decimal digits.
AllDigits(v) == v # <<>> /\ \A k \in 1..Len(v) : is_digit(v[k])

\* The value reads as a number: digits, possibly after a sign.
IsNumeral(v) ==
    \/ AllDigits(v)
    \/ v # <<>> /\ Head(v) \in {"+", "-"} /\ AllDigits(Tail(v))

\* C5: a manifest with a quoted value on its appid (decimal digits), name
\* and installdir lines parses to a record with that app id, that name,
\* is_shortcut = false and install_dir = dir/common/<installdir>.
C5_CompleteManifestParsed ==
    (/\ acf_pc = "returned"
     /\ acf_desc.appid.line = "full" /\ AllDigits(acf_desc.appid.value)
     /\ acf_desc.name.line = "full"
     /\ acf_desc.installdir.line = "full")
    => /\ acf_result.some
       /\ acf_result.value.app_id = strip_zeros(acf_desc.appid.value)
       /\ acf_result.value.name = acf_desc.name.value
       /\ acf_result.value.is_shortcut = FALSE
       /\ path_eq(acf_result.value.install_dir,
                  steamapps_dir \o <<"/", "c", "o", "m", "m", "o", "n", "/">> \o acf_desc.installdir.value)

\* What holds of C5: the same for an appid that fits a u64 and an
\* installdir that is a relative path.
C5_RelativeInstalldirParsed ==
    (/\ acf_pc = "returned"
     /\ acf_desc.appid.line = "full" /\ AllDigits(acf_desc.appid.value)
     /\ fits_u64(strip_zeros(acf_desc.appid.value))
     /\ acf_desc.name.line = "full"
     /\ acf_desc.installdir.line = "full"
     /\ ~starts_with(acf_desc.installdir.value, <<"/">>))
    => /\ acf_result.some
       /\ acf_result.value.app_id = strip_zeros(acf_desc.appid.value)
       /\ acf_result.value.name = acf_desc.name.value
       /\ acf_result.value.is_shortcut = FALSE
       /\ path_eq(acf_result.value.install_dir,
                  steamapps_dir \o <<"/", "c", "o", "m", "m", "o", "n", "/">> \o acf_desc.installdir.value)

\* C6: parse_acf returns None whenever one of the keys appid, name,
\* installdir has no line or no second quoted token on its line, or the
\* appid value is not a number.
C6_IncompleteManifestSkipped ==
    (/\ acf_pc = "returned"
     /\ \/ acf_desc.appid.line # "full"
        \/ acf_desc.name.line # "full"
        \/ acf_desc.installdir.line # "full"
        \/ ~IsNumeral(acf_desc.appid.value))
    => acf_result = None

\* C6 reached: name and installdir are there, the appid is not a number.
C6_Witness ==
    /\ acf_pc = "returned"
    /\ acf_result = None
    /\ acf_desc.appid = Full(<<"4", "x">>)
    /\ acf_desc.name.line = "full"
    /\ acf_desc.installdir.line = "full"
    /\ acf_desc.layout = "nested"

----------------------------------------------------------------------------
(* Claims about parse_library_paths_from_vdf *)

\* The values of the "path" lines of an index description, in order.
PathValuesOf(desc) ==
    LET ps == SelectSeq(desc, LAMBDA it : it.kind = "path")
    IN  [k \in 1..Len(ps) |-> ps[k].value]

\* What the claim expects for values vs: root/steamapps, then each
\* <value>/steamapps in the order of the lines.
ExpectedPaths(ps, vs) ==
    /\ Len(ps) = Len(vs) + 1
    /\ ps[1] = steam_root \o <<"/", "s", "t", "e", "a", "m", "a", "p", "p", "s">>
    /\ \A k \in 1..Len(vs) : path_eq(ps[k + 1], vs[k] \o <<"/", "s", "t", "e", "a", "m", "a", "p", "p", "s">>)

\* C7 as stated: N "path" lines whose values are pairwise distinct texts
\* and differ from the root give N + 1 directories, root/steamapps first,
\* then <value>/steamapps in line order; other lines have no effect.
C7_DistinctValuesAllListed ==
    LET vs == PathValuesOf(vdf_desc) IN
    (/\ lib_pc = "done" /\ steam_root # <<>>
     /\ \A j, k \in 1..Len(vs) : j # k => vs[j] # vs[k]
     /\ \A k \in 1..Len(vs) : vs[k] # steam_root)
    => ExpectedPaths(paths, vs)

\* C7 amended: the values are not empty, no two of them name the same
\* path, and none names the root (paths compared by their components, so
\* that /a and /a/ are the same path).
C7_DistinctPathsAllListed ==
    LET vs == PathValuesOf(vdf_desc) IN
    (/\ lib_pc = "done" /\ steam_root # <<>>
     /\ \A j, k \in 1..Len(vs) : j # k => ~path_eq(vs[j], vs[k])
     /\ \A k \in 1..Len(vs) : vs[k] # <<>> /\ ~path_eq(vs[k], steam_root))
    => ExpectedPaths(paths, vs)

\* C7 reached: two different libraries besides the root, with a line of
\* another kind in the block.
C7_Witness ==
    /\ lib_pc = "done" /\ steam_root # <<>>
    /\ PathValuesOf(vdf_desc) = <<<<"/", "b">>, <<"/", "a", "/">>>>
    /\ Len(vdf_desc) = 3
    /\ Len(paths) = 3
    /\ paths[2] = <<"/", "b", "/", "s", "t", "e", "a", "m", "a", "p", "p", "s">>

\* C8: the list never holds the same path twice, and root/steamapps is its
\* first element.
C8_NoDuplicatePath ==
    steam_root # <<>> =>
        /\ \A j, k \in 1..Len(paths) : j # k => ~path_eq(paths[j], paths[k])
        /\ paths[1] = steam_root \o <<"/", "s", "t", "e", "a", "m", "a", "p", "p", "s">>

\* C8 reached: a value equal to the root and a value given twice, each
\* listed once.
C8_Witness ==
    /\ lib_pc = "done" /\ steam_root # <<>>
    /\ PathValuesOf(vdf_desc) = <<<<"/", "r">>, <<"/", "a">>, <<"/", "a", "/">>>>
    /\ paths = <<<<"/", "r", "/", "s", "t", "e", "a", "m", "a", "p", "p", "s">>, <<"/", "a", "/", "s", "t", "e", "a", "m", "a", "p", "p", "s">>>>

----------------------------------------------------------------------------
(* Claims about discover_games_at *)

\* The records of the well-formed manifests of directory dir, in listing
\* order.
ParsedIn(f, dir) ==
    LET ok == SelectSeq(listing(f, dir),
                        LAMBDA e : is_manifest_name(e.fname)
                                      /\ parse_acf_file(e, dir).some)
    IN  [k \in 1..Len(ok) |-> parse_acf_file(ok[k], dir).value]

\* Walk order: the library directories in index order, each in listing order.
WalkOrder(f, dirs) == Concat([k \in 1..Len(dirs) |-> ParsedIn(f, dirs[k])])

\* The records of w that no earlier record of w shares the app id with.
FirstOccurrences(w) ==
    LET F[k \in 0..Len(w)] ==
            IF k = 0 THEN <<>>
            ELSE IF \A j \in 1..(k - 1) : w[j].app_id # w[k].app_id
                 THEN Append(F[k - 1], w[k])
                 ELSE F[k - 1]
    IN  F[Len(w)]

\* C9: the list returned by discover_games_at holds no app id twice; for
\* each app id it keeps the first record met in walk order (library
\* directories in index order, listing order inside each), and the kept
\* records stay in the order they were met.
C9_FirstOccurrenceWins ==
    disc_pc = "done" =>
        /\ \A j, k \in 1..Len(found) : j # k => found[j].app_id # found[k].app_id
        /\ walk = WalkOrder(fs, library_paths)
        /\ found = FirstOccurrences(walk)

\* C9 reached: app id 1 is met three times, in two files of the root
\* library and in the second library; the first one met is kept.
C9_Witness ==
    /\ disc_pc = "done"
    /\ Len(walk) = 3
    /\ \A k \in 1..3 : walk[k].app_id = <<"1">>
    /\ walk[1].name = <<"B">>
    /\ walk[3].name = <<"Z">>
    /\ found = <<walk[1]>>

\* C10: no record returned by a discovery path has an empty display name:
\* not by the shortcut decoder, not by parse_acf, not by discover_games_at.
C10_NoEmptyDisplayName ==
    /\ \A k \in 1..Len(games) : games[k].app_name # <<>>
    /\ (acf_pc = "returned" /\ acf_result.some) => acf_result.value.name # <<>>
    /\ disc_pc = "done" => \A k \in 1..Len(found) : found[k].name # <<>>


----------------------------------------------------------------------------
(* Claims about the failures of discover_games_at *)

\* C12: when the Steam root directory does not exist, discover_games_at
\* returns an empty result (Ok with no records), not an error.
C12_MissingRootIsEmpty ==
    (~fs.root_exists /\ disc_pc # "start") =>
        (disc_pc = "done" /\ found = <<>>)

\* C13: when the root exists and the library index cannot be read because
\* it is missing, discover_games_at fails with NotFound, not with an I/O
\* error and not with an empty list.
C13_MissingIndexNotFound ==
    (fs.root_exists /\ ~fs.index.some /\ disc_pc # "start") =>
        disc_pc = "not_found"

\* The app ids of the well-formed manifests of the library directories.
WellFormedIds(f, dirs) ==
    UNION {{ParsedIn(f, dirs[k])[j].app_id :
                j \in 1..Len(ParsedIn(f, dirs[k]))} : k \in 1..Len(dirs)}

\* C14: once the root exists and the index was read, discover_games_at
\* never ends in an error, whatever the library directories hold; on Ok
\* every well-formed manifest of every listed directory is represented in
\* the result by a record of its app id, and every returned record is the
\* record of some well-formed manifest.  Unreadable or unparseable
\* manifests, other files and missing or empty directories add nothing.
C14_EntryFailuresSkipped ==
    (fs.root_exists /\ fs.index.some) =>
        /\ disc_pc \in {"start", "walk", "done"}
        /\ disc_pc = "done" =>
            /\ {found[k].app_id : k \in 1..Len(found)}
                   = WellFormedIds(fs, library_paths)
            /\ \A k \in 1..Len(found) :
                   \E d \in 1..Len(library_paths) :
                       \E j \in 1..Len(ParsedIn(fs, library_paths[d])) :
                           found[k] = ParsedIn(fs, library_paths[d])[j]

\* C14 reached: the index names a directory that does not exist, the root
\* library lists an unreadable manifest before a well-formed one, and the
\* call returned the record of the well-formed one.
C14_Witness ==
    /\ disc_pc = "done"
    /\ \E d \in 1..Len(library_paths) :
           path_eq(library_paths[d], <<"/", "b", "/", "s", "t", "e", "a", "m", "a", "p", "p", "s">>)
    /\ Len(fs.dirs.r) = 2
    /\ is_manifest_name(fs.dirs.r[1].fname) /\ ~fs.dirs.r[1].file.some
    /\ Len(found) = 1
    /\ found[1].name = <<"A">>

----------------------------------------------------------------------------
(* Claims about get_steam_games and discover_shortcut_games *)

\* C11: within one discovery pass identifiers are unique per source: the
\* records returned by discover_shortcut_games hold no app_id twice, and
\* the records returned by the second client's discover_games_from hold no
\* identifier (AppName with catalog namespace and item id) twice.
C11_UniqueIdentifiers ==
    /\ cmd_pc \in {"steam", "returned"} =>
           \A j, k \in 1..Len(shortcuts) :
               j # k => shortcuts[j].app_id # shortcuts[k].app_id
    /\ epic_pc = "ok" =>
           \A j, k \in 1..Len(epic_games) :
               j # k => <<epic_games[j].app_name,
                          epic_games[j].catalog_namespace,
                          epic_games[j].catalog_item_id>>
                        # <<epic_games[k].app_name,
                            epic_games[k].catalog_namespace,
                            epic_games[k].catalog_item_id>>

\* C15: when the native discovery fails, get_steam_games still returns Ok
\* with the records of the shortcuts it decoded.
C15_ShortcutsSurviveFailure ==
    (cmd_pc = "returned" /\ disc_pc # "done" /\ shortcuts # <<>>) =>
        /\ cmd_result.ok
        /\ cmd_result.games = as_steam_games(shortcuts)

----------------------------------------------------------------------------
(* Claims about the second client's discovery *)

\* The object has a member of exactly this key and value.
HasMember(ms, key, v) ==
    \E j \in 1..Len(ms) : ms[j].key = key /\ ms[j].value = v

\* Every member of this key, if any, has this value.
OnlyMember(ms, key, v) ==
    \A j \in 1..Len(ms) : ms[j].key = key => ms[j].value = v

\* C16: a manifest yields a record only if bIsApplication is true,
\* bIsExecutable is true and bIsIncompleteInstall is false or missing, all
\* three at once; a manifest failing one of them yields none, and the call
\* over a listed directory never ends in an error.
C16_FlagsGateRecord ==
    /\ efs.dir = "listed" => epic_pc # "io_error"
    /\ \A k \in 1..Len(epic_from) :
           LET ms == efs.entries[epic_from[k]].members IN
           /\ HasMember(ms, KEY_bIsApplication, JBool(TRUE))
           /\ HasMember(ms, KEY_bIsExecutable, JBool(TRUE))
           /\ OnlyMember(ms, KEY_bIsIncompleteInstall, JBool(FALSE))

\* C16 reached: a manifest with the two flags true and no
\* bIsIncompleteInstall member gave a record.
C16_Witness ==
    /\ epic_pc = "ok"
    /\ efs.family = "flags"
    /\ \A j \in 1..Len(efs.entries[1].members) :
           efs.entries[1].members[j].key # KEY_bIsIncompleteInstall
    /\ Len(epic_games) = 1
    /\ epic_games[1].app_name = <<"A">>

\* The records expected of a listing, in listing order.
WantedOf(l) ==
    LET w == SelectSeq(l, LAMBDA file : file.want.some)
    IN  [k \in 1..Len(w) |-> w[k].want.value]

\* C17: for a directory holding any mix of valid .item files, unparseable
\* or unreadable .item files and files of other extensions, the call
\* returns Ok with exactly one record per valid .item file, in directory
\* order.
C17_BadFilesSkipped ==
    efs.family = "listing" =>
        /\ epic_pc # "io_error"
        /\ epic_pc = "ok" => epic_games = WantedOf(efs.entries)

\* C17 reached: text that is not JSON listed before a valid manifest; the
\* call returned the valid one's record.
C17_Witness ==
    /\ epic_pc = "ok"
    /\ efs.family = "listing"
    /\ Len(efs.entries) = 2
    /\ efs.entries[1].kind = "invalid"
    /\ extension(efs.entries[1].fname) = Some(<<"i", "t", "e", "m">>)
    /\ epic_games = <<RecordOf(<<"A">>)>>

\* C18: when the manifest directory does not exist, or the platform has
\* none, discovery returns Ok with an empty list.
C18_AbsentDirectoryIsEmpty ==
    (efs.dir \in {"missing", "no_platform_dir"} /\ epic_pc # "start") =>
        (epic_pc = "ok" /\ epic_games = <<>>)

\* C18 reached: the call on a directory that does not exist has returned.
C18_Witness ==
    /\ efs.dir = "missing"
    /\ epic_idx = 1
    /\ epic_pc = "ok"

\* C19: every record returned has a non-empty app_name, display_name,
\* install_location and catalog_namespace.
C19_IdentityNonEmpty ==
    \A k \in 1..Len(epic_games) :
        /\ epic_games[k].app_name # <<>>
        /\ epic_games[k].display_name # <<>>
        /\ epic_games[k].install_location # <<>>
        /\ epic_games[k].catalog_namespace # <<>>

\* ASCII letters of a key folded to lower case.
FoldCase(s) ==
    LET up == <<"A", "B", "C", "D", "E", "F", "G", "H", "I", "J", "K", "L", "M", "N", "O", "P", "Q", "R", "S", "T", "U", "V", "W", "X", "Y", "Z">>
        lo == <<"a", "b", "c", "d", "e", "f", "g", "h", "i", "j", "k", "l", "m", "n", "o", "p", "q", "r", "s", "t", "u", "v", "w", "x", "y", "z">>
        fold(c) == IF \E n \in 1..26 : up[n] = c
                   THEN lo[CHOOSE n \in 1..26 : up[n] = c] ELSE c
    IN  [k \in 1..Len(s) |-> fold(s[k])]

\* The object has a member of this key in some letter case, set to true.
FlagSet(ms, key) ==
    \E j \in 1..Len(ms) :
        FoldCase(ms[j].key) = FoldCase(key) /\ ms[j].value = JBool(TRUE)

\* C20: the three flags are recognised whatever the letter case of their
\* key, the identity fields only under their exact key: a manifest with one
\* respelled key yields a record exactly when it has AppName, DisplayName
\* and InstallLocation under these exact keys, bIsApplication and
\* bIsExecutable set in some spelling and bIsIncompleteInstall set in no
\* spelling.
C20_FlagKeysAnyCase ==
    (epic_pc = "ok" /\ efs.family = "spelling") =>
        LET ms == efs.entries[1].members IN
        (Len(epic_games) = 1) <=>
            /\ \A key \in {KEY_AppName, KEY_DisplayName, KEY_InstallLocation} :
                   \E j \in 1..Len(ms) : ms[j].key = key
            /\ FlagSet(ms, KEY_bIsApplication)
            /\ FlagSet(ms, KEY_bIsExecutable)
            /\ ~FlagSet(ms, KEY_bIsIncompleteInstall)

----------------------------------------------------------------------------
(* Further claims about parse_shortcuts_vdf *)

\* C24: a nested map inside a per-app entry extends to its own map end, so
\* the fields placed after it are still collected: an entry with appid,
\* AppName and exe and a nested "tags" map at any position decodes to the
\* one record of these three values.
C24_NestedMapSkipped ==
    (pc = "done" /\ shape.family = "nested") => games = shape.want

\* Offset in enc_entries(es) of the k-th field of the n-th entry; k one past
\* the last field gives the offset of the entry's map-end byte.
field_offset(es, n, k) ==
    entry_offset(es, n) + 1 + Len(es[n].key) + 1
        + Len(Concat([j \in 1..(k - 1) |-> enc_field(es[n].fields[j])]))

\* The value of the last field of e with tag tg whose name is nm in any
\* case, as its payload bytes; none when e has no such field.
LastPayload(e, tg, nm) ==
    LET hits == {k \in 1..Len(e.fields) :
                    /\ e.fields[k].tag = tg
                    /\ eq_ignore_ascii_case(e.fields[k].name, nm)}
    IN  IF hits = {} THEN <<>>
        ELSE e.fields[CHOOSE k \in hits : \A j \in hits : j <= k].payload

\* The record an entry stands for: its appid bytes read little-endian, its
\* AppName and exe bytes without their terminator; 0 and "" when missing.
RecordOfEntry(e) ==
    LET v == LastPayload(e, TYPE_INT32, STR_appid)
        n == LastPayload(e, TYPE_STRING, STR_appname)
        x == LastPayload(e, TYPE_STRING, STR_exe)
    IN  [app_id |-> IF v = <<>> THEN ZeroId
                    ELSE [hi |-> v[3] + 256 * v[4], lo |-> v[1] + 256 * v[2]],
         app_name |-> IF n = <<>> THEN <<>>
                      ELSE from_utf8_lossy(SubSeq(n, 1, Len(n) - 1)),
         exe |-> IF x = <<>> THEN <<>>
                 ELSE from_utf8_lossy(SubSeq(x, 1, Len(x) - 1))]

\* The records of the entries of es whose display name is not empty, in
\* order.
RECURSIVE RecordsOfEntries(_)
RecordsOfEntries(es) ==
    IF es = <<>> THEN <<>>
    ELSE (IF RecordOfEntry(es[1]).app_name # <<>>
          THEN <<RecordOfEntry(es[1])>> ELSE <<>>)
             \o RecordsOfEntries(Tail(es))

\* C25: in a complete buffer of well-formed entries whose fields carry the
\* tags 0x01, 0x02, 0x03, 0x04, 0x05 and an unrecognized one, the cursor of
\* the per-field loop always stands on the first byte of a field or on the
\* entry's map-end byte (each field moved it by its name and the payload
\* width of its tag: to the null for 0x01, 4 for 0x02, 1 for 0x03, 4 for
\* 0x04, 8 for 0x05, 1 otherwise), and the records returned are those of
\* the entries' appid, AppName and exe fields, whatever fields come before.
C25_CursorAdvancesByWidth ==
    (shape.family = "mixed" /\ Complete(shape)) =>
        /\ pc # "panic"
        /\ pc = "fields" =>
              \E n \in 1..Len(shape.entries) :
                  /\ entry_at = entry_offset(shape.entries, n)
                  /\ \E k \in 1..(Len(shape.entries[n].fields) + 1) :
                         i = field_offset(shape.entries, n, k)
        /\ pc = "done" =>
              /\ games = RecordsOfEntries(shape.entries)
              /\ i = Len(data)

\* C25 reached: an 8-byte uint64 payload full of map-end bytes comes before
\* AppName, and the record carries the name.
C25_Witness ==
    /\ pc = "done"
    /\ shape.family = "mixed"
    /\ Complete(shape)
    /\ Len(shape.entries[1].fields) = 2
    /\ shape.entries[1].fields[1].tag = 5
    /\ Len(shape.entries[1].fields[1].payload) = 8
    /\ shape.entries[1].fields[2] = StrField(<<65, 112, 112, 78, 97, 109, 101>>, <<72, 76>>)
    /\ Len(games) >= 1
    /\ games[1].app_name = <<72, 76>>

\* C27: parse_shortcuts_vdf terminates on every buffer: an iteration of the
\* outer scan loop or of the per-field loop begins only with the cursor
\* inside the buffer and, unless it aborts, leaves the cursor strictly
\* further, also when a truncated int32 payload is not consumed; so no more
\* iterations begin than the buffer has bytes.
C27_Terminates ==
    [][/\ iters' <= Len(data')
       /\ (iters' # iters) =>
              /\ i < Len(data)
              /\ pc' # "panic" => i' > i]_vars

\* C27 reached: the buffer ends two bytes into the payload of an int32
\* field; the payload was not consumed and the decoder has returned.
C27_Witness ==
    /\ pc = "done"
    /\ shape.family = "mixed"
    /\ Len(shape.entries) = 1
    /\ Len(shape.entries[1].fields) >= 1
    /\ shape.entries[1].fields[1].tag = TYPE_INT32
    /\ shape.cut = field_offset(shape.entries, 1, 1)
                       + 1 + Len(shape.entries[1].fields[1].name) + 1 + 2
    /\ i > Len(data)

----------------------------------------------------------------------------
(* Further claims about discover_games_at and get_steam_games *)

\* C23: two consecutive calls of discover_games_at on an unchanged file
\* system return the same: the second call ends as the first did and its
\* list equals the first call's list, element by element; nothing the
\* first call has seen is missing from the second.
C23_SecondCallSame ==
    (call_no = 2 /\ disc_pc \in {"done", "not_found", "io_error"}) =>
        /\ disc_pc = first.how
        /\ found = first.games

\* C23 reached: the second call has returned two records, after leaving out
\* a record whose identifier it had seen earlier in the same call.
C23_Witness ==
    /\ call_no = 2
    /\ disc_pc = "done"
    /\ Len(found) = 2
    /\ Len(walk) > Len(found)
    /\ found = first.games

\* The number a decimal numeral stands for.
RECURSIVE numeral_value(_)
numeral_value(ds) ==
    IF ds = <<>> THEN 0
    ELSE 10 * numeral_value(SubSeq(ds, 1, Len(ds) - 1))
             + (CHOOSE d \in 0..9 : Digits[d + 1] = ds[Len(ds)])

\* C26: shortcuts are never deduplicated against native records: the list
\* get_steam_games returns is the native records, each with is_shortcut
\* false, followed by one record per decoded shortcut, each with
\* is_shortcut true and the shortcut's number, name and exe, also when a
\* native record carries the same number.
C26_ShortcutsNotDeduplicated ==
    (cmd_pc = "returned" /\ cmd_result.ok) =>
        LET gs == cmd_result.games
            n == Len(found)
        IN  /\ Len(gs) = n + Len(shortcuts)
            /\ \A k \in 1..n : gs[k] = found[k] /\ ~gs[k].is_shortcut
            /\ \A k \in 1..Len(shortcuts) :
                   /\ gs[n + k].is_shortcut
                   /\ shortcuts[k].app_id.hi = 0
                   /\ numeral_value(gs[n + k].app_id) = shortcuts[k].app_id.lo
                   /\ gs[n + k].name = shortcuts[k].app_name
                   /\ gs[n + k].install_dir = shortcuts[k].exe

\* C26 reached: a native record and a shortcut record are both returned
\* with the identifier 7.
C26_Witness ==
    /\ cmd_pc = "returned"
    /\ cmd_result.ok
    /\ \E j, k \in 1..Len(cmd_result.games) :
           /\ ~cmd_result.games[j].is_shortcut
           /\ cmd_result.games[k].is_shortcut
           /\ cmd_result.games[j].app_id = <<"7">>
           /\ cmd_result.games[k].app_id = <<"7">>

----------------------------------------------------------------------------
(* Claims about Library *)

\* C21: remove and update called with an id that no stored game has return
\* NotFound, leave the in-memory list as it was, element by element, and do
\* not touch the backing file.
C21_NotFoundChangesNothing ==
    [][(/\ store_last'.op \in {"remove", "update"}
        /\ \A k \in 1..Len(store_games) : store_games[k].id # store_last'.id)
           => /\ store_last'.error = "NotFound"
              /\ store_games' = store_games
              /\ store_file' = store_file]_vars

\* C21 reached: update has returned NotFound to a library of two games,
\* whose file holds the two.
C21_Witness ==
    /\ store_last.op = "update"
    /\ store_last.error = "NotFound"
    /\ Len(store_games) = 2
    /\ store_games = store_before
    /\ load(store_file) = LibOk(store_games)

\* C22: as long as every call of add, remove and update has succeeded,
\* loading the file gives the in-memory list, in order; and a call that
\* succeeds has appended the game (add), taken out the first game with the
\* id and kept the others in order (remove), or replaced the first game
\* with the id at its index (update).
C22_FileMirrorsMemory ==
    /\ (store_pc = "loaded" /\ store_last.op # "none" /\ store_ok)
           => load(store_file) = LibOk(store_games)
    /\ (store_last.op = "add" /\ store_last.error = "none")
           => store_games = store_before \o <<store_last.game>>
    /\ (store_last.op = "remove" /\ store_last.error = "none")
           => \E k \in 1..Len(store_before) :
                  /\ store_before[k].id = store_last.id
                  /\ \A j \in 1..(k - 1) : store_before[j].id # store_last.id
                  /\ Len(store_games) = Len(store_before) - 1
                  /\ \A j \in 1..(k - 1) : store_games[j] = store_before[j]
                  /\ \A j \in k..Len(store_games) :
                         store_games[j] = store_before[j + 1]
    /\ (store_last.op = "update" /\ store_last.error = "none")
           => \E k \in 1..Len(store_before) :
                  /\ store_before[k].id = store_last.id
                  /\ \A j \in 1..(k - 1) : store_before[j].id # store_last.id
                  /\ Len(store_games) = Len(store_before)
                  /\ store_games[k] = store_last.game
                  /\ \A j \in 1..Len(store_games) :
                         j # k => store_games[j] = store_before[j]

\* C22 reached: of two games with the same id the first was removed; the
\* one left has a cover image, a tag and empty notes, and the file loads to
\* it.
C22_Witness ==
    /\ store_ok
    /\ store_last.op = "remove"
    /\ Len(store_before) = 2
    /\ store_before[1].id = store_before[2].id
    /\ store_before[1] # store_before[2]
    /\ store_games = <<Game1b>>
    /\ load(store_file) = LibOk(<<Game1b>>)

\* C28: a call of add, remove or update that returns an error leaves the
\* in-memory list as it was before the call.
C28_ErrorLeavesMemory ==
    (store_last.op # "none" /\ store_last.error # "none")
        => store_games = store_before

----------------------------------------------------------------------------
(* Claims about the commands on the custom games *)

\* C29: with add_game, remove_game and get_custom_games running at the same
\* time, whenever no command holds the lock the in-memory list and the
\* backing file are what the commands begun so far give when run alone one
\* after the other, in the order in which they got the lock; every command
\* returns what it returns in that sequential run, so get_custom_games
\* returns the list left by the commands before it; and the game of an add
\* that returned Ok is in the list.
C29_CommandsSerialize ==
    /\ lock = 0 =>
           /\ store_games = serial.games
           /\ store_file = serial.file
    /\ \A t \in 1..Len(threads) :
           threads[t].pc = "done" =>
               /\ threads[t].out = serial.outs[t]
               /\ (threads[t].cmd.op = "add" /\ threads[t].out.error = "none")
                      => \E k \in 1..Len(store_games) :
                             store_games[k] = threads[t].cmd.game

\* C29 reached: two adds and a get have run at the same time and are done;
\* both games are in the list and in the file, and the get returned the
\* list between the two adds.
C29_Witness ==
    /\ Len(threads) = 3
    /\ \A t \in 1..3 : threads[t].pc = "done"
    /\ threads[1].cmd.op = "add" /\ threads[1].out.error = "none"
    /\ threads[2].cmd.op = "add" /\ threads[2].out.error = "none"
    /\ threads[3].cmd.op = "get"
    /\ Len(threads[3].out.games) = Len(store_games) - 1
    /\ load(store_file) = LibOk(store_games)
    /\ order = <<2, 3, 1>>
============================================================================
